---- MODULE Spec2Model ----
(***************************************************************************)
(* Model of the Immich -> Google Photos mirroring service: the run         *)
(* triggers (HTTP route and scheduled job), the per-run cancel registry    *)
(* and the SyncEngine (initialisation, album resolution, per-asset         *)
(* reconciliation against the sync_items ledger, orphan deletion, run      *)
(* finalisation).                                                          *)
(*                                                                         *)
(* The process is a single asyncio event loop: code between two awaits is  *)
(* atomic.  Every action below is one such stretch (or a sequence of       *)
(* stretches during which the coroutine only talks to the network and the  *)
(* database on behalf of one asset).  Database statements are taken to     *)
(* succeed; adapter (network) calls may fail.                              *)
(***************************************************************************)
EXTENDS Integers, Sequences, FiniteSets, TLC

\* ------------------------------------------------------------------ bounds
MaxRuns == 2          \* number of SyncRun rows ever created
MaxHandlers == 1      \* HTTP requests inside trigger_sync at the same time

\* ------------------------------------------------------- program constants
NoneStr == "<None>"   \* a NULL column / Python None in a string position
NoItem == [immich_checksum |-> NoneStr, immich_filename |-> NoneStr,
           google_media_item_id |-> NoneStr, google_product_url |-> NoneStr, status |-> "ABSENT",
           error |-> NoneStr]

SyncStatus == {"PENDING", "OK", "FAILED", "ORPHANED"}
RunStatus == {"RUNNING", "OK", "FAILED", "CANCELLED"}
SyncRunAction == {"UPLOADED", "SKIPPED", "FAILED", "DELETED"}
TerminalStatus == RunStatus \ {"RUNNING"}

NoExcerpt == -1       \* sync_runs.log_excerpt is NULL
ExcerptLines == 50    \* log_messages[-50:]
LoggedErrors == 10    \* result["errors"][:10]

\* ------------------------------------------------------------ environment
\* HTTP requests that may be inside trigger_sync at the same time (the
\* scheduled job is one more, concurrent, source of runs).
Handlers == 1..MaxHandlers

\* Asset ids the Immich album may contain.
AssetIds == {"a", "b", "c"}

\* The assets get_album_assets may return: asset "a" carries a checksum and
\* comes in two versions (A1, then edited to A2); asset "b" has no checksum,
\* so its fingerprint falls back to updatedAt + filename.
A1 == [id |-> "a", originalFileName |-> "a.jpg", checksum |-> "x1", updatedAt |-> "t1"]
A2 == [id |-> "a", originalFileName |-> "a.jpg", checksum |-> "x2", updatedAt |-> "t2"]
B1 == [id |-> "b", originalFileName |-> "b.jpg", checksum |-> "",   updatedAt |-> "t1"]

\* Asset "c" is added to the Immich album after "a" and "b" were mirrored.
AssetC == [id |-> "c", originalFileName |-> "c.jpg", checksum |-> "x3", updatedAt |-> "t3"]

\* Source inventories a run may be handed: the empty album, both assets,
\* and the edited "a" alone ("b" was removed from the album).
Inventories == { <<>>, <<A1, B1>>, <<A2>> }

\* The album once "b" was taken out of it and "c" was put in, in the two
\* orders get_album_assets may return it.
InventoriesRoundTrip == { <<A1, AssetC>>, <<AssetC, A1>> }

\* A media item present in the Google album that the engine never created.
ForeignItem == "gx"

\* Id the Google adapter gives to the n-th media item it creates.
MediaId(n) == "g" \o ToString(n)

\* Id Google Photos gives to the n-th album created with the mirror's title.
AlbumId(n) == "album" \o ToString(n)

\* media_item.get("productUrl", ""): the address Google Photos gives the
\* media item.
ProductUrl(gid) == "https://photos.google.com/lr/photo/" \o gid

\* Outcomes of the network part of the upload path of one asset.
UploadOutcomes == {"ok", "download_fail", "upload_fail", "create_fail"}

VARIABLES
    runs,           \* sync_runs table: sequence of rows, id = index
    ledger,         \* sync_items table: asset id -> row (NoItem when absent)
    audit,          \* sync_run_logs table, in insertion order
    cancel_events,  \* engine.cancel_events: run id -> "absent" | "clear" | "set"
    task,           \* per run: position and locals of its SyncEngine coroutine
    hpc,            \* position of each HTTP handler inside trigger_sync
    sched,          \* position of scheduled_sync_job
    config,         \* AppConfig row (the fields the engine reads)
    album,          \* media items currently in the Google album
    albums,         \* ids of the Google albums that carry the mirror's title
    nextMedia,      \* number of media items created so far by batch_create
    calls,          \* adapter calls issued so far: [run, op, arg, ok]
    armed           \* per run: where its engine stood at the first cancel request

vars == <<runs, ledger, audit, cancel_events, task, hpc, sched, config, album,
          albums, nextMedia, calls, armed>>

RunIds == 1..MaxRuns

\* ------------------------------------------------------------------ helpers
\* models.SyncRun(): a new row with the column defaults.
NewRun == [status |-> "RUNNING", total_assets |-> 0, uploaded |-> 0,
           skipped |-> 0, failed |-> 0, deleted |-> 0, finished_at |-> FALSE,
           log_excerpt |-> NoExcerpt]

\* log_messages is the number of lines self.log has appended so far; the
\* engine object is dropped when run_sync returns, so the lines of the
\* returning step are counted in the excerpt only.
\* album_id is self.config.google_album_id: the engine reads the AppConfig
\* row once, in initialize(), and the session keeps the loaded values
\* (expire_on_commit=False).
NoTask == [pc |-> "none", owner |-> "none", initialized |-> FALSE,
           album_id |-> NoneStr, assets |-> <<>>, idx |-> 0, log_messages |-> 0]

\* Mutant of Exists: the row is not looked up.
ExistsUnchecked(r) == TRUE

\* select(SyncRun).where(SyncRun.id == run_id) finds a row.
Exists(r) == r \in 1..Len(runs)

\* Mutant of RunningRuns: rows left RUNNING by a process that stopped are
\* not counted.
RunningRunsWithEngine ==
    { r \in 1..Len(runs) : runs[r].status = "RUNNING" /\ task[r].pc # "stopped" }

\* select(SyncRun).where(SyncRun.status == RunStatus.RUNNING)
RunningRuns == { r \in 1..Len(runs) : runs[r].status = "RUNNING" }

\* Requests that passed the "already running?" check and have not yet
\* inserted their row (used only to keep the runs table within MaxRuns).
Pending == Cardinality({ h \in Handlers : hpc[h] = "checked" })
           + (IF sched = "checked" THEN 1 ELSE 0)

\* Mutant of IsSet: the engine never sees the event set.
IsSetNever(r) == FALSE

\* Mutant of IsSet: the engine looks for any event that is set, not for
\* the event of its own run.
IsSetForAnyRun(r) == \E q \in RunIds : cancel_events[q] = "set"

\* asyncio.Event.is_set() on the engine's event.
IsSet(r) == cancel_events[r] = "set"

\* Mutant of SetDefault: the engine always installs a new, clear event.
SetFresh(ev, r) == [ev EXCEPT ![r] = "clear"]

\* cancel_events.setdefault(run_id, asyncio.Event())
SetDefault(ev, r) == IF ev[r] = "absent" THEN [ev EXCEPT ![r] = "clear"] ELSE ev

\* "\n".join(self.log_messages[-50:]) for a log of n lines: how many lines
\* the stored excerpt has.
Excerpt(n) == IF n > ExcerptLines THEN ExcerptLines ELSE n

\* run.status = st; run.finished_at = utcnow();
\* run.log_excerpt = "\n".join(self.log_messages[-50:]); commit
Finish(row, st, lines) ==
    [row EXCEPT !.status = st, !.finished_at = TRUE, !.log_excerpt = Excerpt(lines)]

\* Lines self.log appends while one asset goes through the upload path:
\* "Processing asset", "Downloading", then "Downloaded", "Uploading" and
\* either "Created media item" or "Failed to sync".
UploadLogLines(outcome) == IF outcome = "download_fail" THEN 3 ELSE 5

\* fingerprint = asset.get("checksum") or f"{updatedAt}_{filename}"
Fingerprint(asset) ==
    IF asset.checksum # "" /\ asset.checksum # NoneStr
    THEN asset.checksum
    ELSE asset.updatedAt \o "_" \o asset.originalFileName

\* Mutant of ShouldSkip: the status of the row is not looked at.
ShouldSkipIgnoringStatus(item, fp) ==
    /\ item # NoItem
    /\ item.immich_checksum = fp

\* sync_item and sync_item.immich_checksum == fingerprint
\*           and sync_item.status == SyncStatus.OK
ShouldSkip(item, fp) ==
    /\ item # NoItem
    /\ item.immich_checksum = fp
    /\ item.status = "OK"

\* str(e) of the exception raised by the failing step of the upload path.
ErrorText(outcome) ==
    CASE outcome = "download_fail" -> "download failed"
      [] outcome = "upload_fail"   -> "upload failed"
      [] outcome = "create_fail"   -> "Failed to create media item"
      [] OTHER                     -> NoneStr

\* The adapter calls the upload path issues before it stops.
UploadCalls(r, asset, outcome) ==
    { [run |-> r, op |-> "download", arg |-> asset.id, ok |-> outcome # "download_fail"] }
    \cup (IF outcome # "download_fail"
          THEN { [run |-> r, op |-> "upload", arg |-> asset.id, ok |-> outcome # "upload_fail"] }
          ELSE {})
    \cup (IF outcome \in {"ok", "create_fail"}
          THEN { [run |-> r, op |-> "batch_create", arg |-> asset.id, ok |-> outcome = "ok"] }
          ELSE {})

\* SyncRunLog(sync_run_id, action, immich_asset_id, immich_filename, ...)
LogEntry(r, action, asset_id, filename, gid, err) ==
    [sync_run_id |-> r, action |-> action, immich_asset_id |-> asset_id,
     immich_filename |-> filename, google_media_item_id |-> gid,
     error_message |-> err]

\* Mutant of CurAsset: the loop walks the inventory from its end.
CurAssetFromEnd(r) == task[r].assets[Len(task[r].assets) + 1 - task[r].idx]

\* for i, asset in enumerate(assets, 1): the asset of the current iteration.
CurAsset(r) == task[r].assets[task[r].idx]
InLoop(r) == task[r].pc = "loop" /\ task[r].idx <= Len(task[r].assets)

\* ------------------------------------------------------------------- Init
\* The database and the album the service starts on.  Fresh: a new database
\* (init_db creates empty tables) and an album holding only a photo the user
\* put there.
FreshStore ==
    [ledger |-> [a \in AssetIds |-> NoItem],
     album |-> {ForeignItem},
     albums |-> {},
     nextMedia |-> 0,
     google_album_id |-> NoneStr]

\* Used: the database left by two earlier runs.  The first uploaded A1 and
\* B1 (media items g1, g2); the second was handed <<A2>>: the upload of the
\* edited "a" failed and the delete of orphan g2 was refused.
UsedStore ==
    [ledger |-> [a \in AssetIds |->
                   IF a = "a"
                   THEN [immich_checksum |-> "x1", immich_filename |-> "a.jpg",
                         google_media_item_id |-> MediaId(1),
                         google_product_url |-> ProductUrl(MediaId(1)),
                         status |-> "FAILED",
                         error |-> "upload failed"]
                   ELSE IF a = "b"
                   THEN [immich_checksum |-> "t1_b.jpg", immich_filename |-> "b.jpg",
                         google_media_item_id |-> MediaId(2),
                         google_product_url |-> ProductUrl(MediaId(2)),
                         status |-> "ORPHANED",
                         error |-> "Failed to remove from Google Photos album"]
                   ELSE NoItem],
     album |-> {ForeignItem, MediaId(1), MediaId(2)},
     albums |-> {AlbumId(1)},
     nextMedia |-> 2,
     google_album_id |-> AlbumId(1)]

\* Stale: an earlier run uploaded A1 (media item g1); since then the user
\* has emptied the album in Google Photos, so the row of "a" names a media
\* item that the album no longer lists.
StaleStore ==
    [ledger |-> [a \in AssetIds |->
                   IF a = "a"
                   THEN [immich_checksum |-> "x1", immich_filename |-> "a.jpg",
                         google_media_item_id |-> MediaId(1),
                         google_product_url |-> ProductUrl(MediaId(1)),
                         status |-> "OK",
                         error |-> NoneStr]
                   ELSE NoItem],
     album |-> {},
     albums |-> {AlbumId(1)},
     nextMedia |-> 1,
     google_album_id |-> AlbumId(1)]

\* The sync_runs and sync_run_logs rows of runs that ended before the start
\* are left out: no statement of the service reads them.
Init ==
    /\ runs = <<>>
    /\ audit = <<>>
    /\ cancel_events = [r \in RunIds |-> "absent"]
    /\ task = [r \in RunIds |-> NoTask]
    /\ hpc = [h \in Handlers |-> "idle"]
    /\ sched = "idle"
    /\ calls = {}
    /\ armed = [r \in RunIds |-> "no"]
    /\ \E store \in {FreshStore, UsedStore, StaleStore} :
          /\ ledger = store.ledger
          /\ album = store.album
          /\ albums = store.albums
          /\ nextMedia = store.nextMedia
          /\ config = [google_album_id |-> store.google_album_id]

\* ------------------------------------------------- routes/sync.py triggers
\* No request of handler h is in progress; "conflict" remembers that its
\* last request was answered 409.
Idle(h) == hpc[h] \in {"idle", "conflict"}

\* trigger_sync, up to the end of the "already running?" query: a RUNNING
\* row exists, so the request is answered 409 and nothing is written.
TriggerReject(h) ==
    /\ Idle(h)
    /\ RunningRuns # {}
    /\ hpc' = [hpc EXCEPT ![h] = "conflict"]
    /\ UNCHANGED <<runs, ledger, audit, cancel_events, task, sched, config,
                   album, albums, nextMedia, calls, armed>>

\* Mutant of TriggerCheck: the result of the query is not looked at.
TriggerCheckUnguarded(h) ==
    /\ Idle(h)
    /\ Len(runs) + Pending < MaxRuns
    /\ hpc' = [hpc EXCEPT ![h] = "checked"]
    /\ UNCHANGED <<runs, ledger, audit, cancel_events, task, sched, config,
                   album, albums, nextMedia, calls, armed>>

\* trigger_sync, the same query finding no RUNNING row; the handler is now
\* suspended in "await db.commit()" of the insert that follows.
TriggerCheck(h) ==
    /\ Idle(h)
    /\ RunningRuns = {}
    /\ Len(runs) + Pending < MaxRuns
    /\ hpc' = [hpc EXCEPT ![h] = "checked"]
    /\ UNCHANGED <<runs, ledger, audit, cancel_events, task, sched, config,
                   album, albums, nextMedia, calls, armed>>

\* trigger_sync, the insert of the new row, the scheduling of run_sync_task
\* as a background task and the 200 response carrying run.id.
TriggerCreate(h) ==
    /\ hpc[h] = "checked"
    /\ runs' = Append(runs, NewRun)
    /\ task' = [task EXCEPT ![Len(runs) + 1] =
                   [NoTask EXCEPT !.pc = "created", !.owner = "http"]]
    /\ hpc' = [hpc EXCEPT ![h] = "idle"]
    /\ UNCHANGED <<ledger, audit, cancel_events, sched, config, album, albums,
                   nextMedia, calls, armed>>

\* --------------------------------------------------- scheduler.py (the job)
\* scheduled_sync_job returning early because sync_enabled is off (the flag
\* is written by the settings route at any time; its value is not tracked).
SchedSkipDisabled ==
    /\ sched = "idle"
    /\ UNCHANGED vars

\* scheduled_sync_job returning early because a run is RUNNING.
SchedSkipRunning ==
    /\ sched = "idle"
    /\ RunningRuns # {}
    /\ UNCHANGED vars

\* scheduled_sync_job passing both checks; suspended in the insert's commit.
SchedCheck ==
    /\ sched = "idle"
    /\ RunningRuns = {}
    /\ Len(runs) + Pending < MaxRuns
    /\ sched' = "checked"
    /\ UNCHANGED <<runs, ledger, audit, cancel_events, task, hpc, config,
                   album, albums, nextMedia, calls, armed>>

\* scheduled_sync_job inserting its row; the job then runs the engine inline
\* (max_instances=1 keeps a second job from starting until it returns).
SchedCreate ==
    /\ sched = "checked"
    /\ runs' = Append(runs, NewRun)
    /\ task' = [task EXCEPT ![Len(runs) + 1] =
                   [NoTask EXCEPT !.pc = "created", !.owner = "sched"]]
    /\ sched' = "running"
    /\ UNCHANGED <<ledger, audit, cancel_events, hpc, config, album, albums,
                   nextMedia, calls, armed>>

\* ------------------------------------------------ cancel_sync/request_cancel
\* Where run r's engine stands: not yet constructed, setting up (initialised,
\* resolving the album, fetching the inventory), about to process its first
\* asset, further on, or returned.
Phase(r) ==
    CASE task[r].pc = "created" -> "created"
      [] task[r].pc \in {"early", "ensure", "fetch"} -> "setup"
      [] task[r].pc = "loop" /\ task[r].idx = 1 -> "first"
      [] task[r].pc = "loop" /\ task[r].idx > 1 -> "later"
      [] OTHER -> "done"

\* cancel_sync naming a run id that has no row, or naming none while no row
\* is RUNNING: answered 404, request_cancel is not called.
CancelNotFound(r) ==
    /\ ~Exists(r) \/ RunningRuns = {}
    /\ UNCHANGED vars

\* cancel_sync for a run row that exists (named by run_id, or found as the
\* RUNNING row by the query), then engine.request_cancel(target_run.id).
CancelRequest(r) ==
    /\ Exists(r)
    /\ cancel_events' = [cancel_events EXCEPT ![r] = "set"]
    /\ armed' = IF armed[r] = "no" THEN [armed EXCEPT ![r] = Phase(r)] ELSE armed
    /\ UNCHANGED <<runs, ledger, audit, task, hpc, sched, config, album, albums,
                   nextMedia, calls>>

\* ------------------------------------------------------ engine.SyncEngine
\* clear_cancel(run_id): cancel_events.pop(run_id, None)
ClearCancel(ev, r) == [ev EXCEPT ![r] = "absent"]

\* The scheduled job awaits run_sync inline and returns with it; a background
\* task of the HTTP route belongs to no handler.
Release(r) == IF task[r].owner = "sched" THEN "idle" ELSE sched

\* Mutant of Return: the row is written but the coroutine does not return.
ReturnAndContinue(r, row) ==
    /\ runs' = [runs EXCEPT ![r] = row]
    /\ cancel_events' = [cancel_events EXCEPT ![r] = "absent"]
    /\ task' = task
    /\ sched' = sched

\* run_sync returning (through its finally block) with the row as written
\* by the path taken: the engine's event is popped, the coroutine is done.
Return(r, row) ==
    /\ runs' = [runs EXCEPT ![r] = row]
    /\ cancel_events' = ClearCancel(cancel_events, r)
    /\ task' = [task EXCEPT ![r].pc = "done"]
    /\ sched' = Release(r)

\* SyncEngine.__init__ (the engine takes the registry's event for its run,
\* creating a clear one only when none is there), then run_sync up to a
\* successful initialize(); the status is (re)written RUNNING.
ConstructInitOk(r) ==
    /\ task[r].pc = "created"
    /\ cancel_events' = SetDefault(cancel_events, r)
    /\ runs' = [runs EXCEPT ![r].status = "RUNNING"]
    /\ task' = [task EXCEPT ![r].pc = "early", ![r].initialized = TRUE,
                            ![r].album_id = config.google_album_id,
                            ![r].log_messages = 1]
    /\ UNCHANGED <<ledger, audit, hpc, sched, config, album, albums, nextMedia,
                   calls, armed>>

\* Mutant of ConstructInitFail: run_sync returns on a failed initialize()
\* without writing the row.
ConstructInitFailSilent(r) ==
    /\ task[r].pc = "created"
    /\ Return(r, runs[r])
    /\ UNCHANGED <<ledger, audit, hpc, config, album, albums, nextMedia, calls, armed>>

\* SyncEngine.__init__, then initialize() returning False (Immich or Google
\* not configured, no album selected, credentials unreadable): the run is
\* finalised FAILED.
ConstructInitFail(r) ==
    /\ task[r].pc = "created"
    /\ Return(r, Finish(runs[r], "FAILED", 1))
    /\ UNCHANGED <<ledger, audit, hpc, config, album, albums, nextMedia, calls, armed>>

\* run_sync: the early cancellation check finds the event set.
EarlyCancel(r) ==
    /\ task[r].pc = "early"
    /\ IsSet(r)
    /\ Return(r, Finish(runs[r], "CANCELLED", task[r].log_messages + 1))
    /\ UNCHANGED <<ledger, audit, hpc, config, album, albums, nextMedia, calls, armed>>

\* run_sync past the early check, ensure_google_album with the album id
\* in the configuration the engine loaded: no adapter call.
AlbumCached(r) ==
    /\ task[r].pc = "early"
    /\ ~IsSet(r)
    /\ task[r].album_id # NoneStr
    /\ task' = [task EXCEPT ![r].pc = "fetch", ![r].log_messages = @ + 1]
    /\ UNCHANGED <<runs, ledger, audit, cancel_events, hpc, sched, config,
                   album, albums, nextMedia, calls, armed>>

\* ensure_google_album with no album id loaded, up to the answer of
\* list_albums inside GooglePhotosClient.ensure_album.  An album of the
\* title is listed: its id is returned and update_google_album stores it
\* (which of several albums of one title comes first is Google's choice).
\* None is listed: ensure_album goes on to create_album.
AlbumList(r) ==
    /\ task[r].pc = "early"
    /\ ~IsSet(r)
    /\ task[r].album_id = NoneStr
    /\ calls' = calls \cup {[run |-> r, op |-> "list_albums", arg |-> NoneStr, ok |-> TRUE]}
    /\ IF albums = {}
       THEN /\ task' = [task EXCEPT ![r].pc = "ensure", ![r].log_messages = @ + 1]
            /\ UNCHANGED config
       ELSE \E id \in albums :
              /\ config' = [config EXCEPT !.google_album_id = id]
              /\ task' = [task EXCEPT ![r].pc = "fetch", ![r].album_id = id,
                                      ![r].log_messages = @ + 2]
    /\ UNCHANGED <<runs, ledger, audit, cancel_events, hpc, sched, album, albums,
                   nextMedia, armed>>

\* GooglePhotosClient.ensure_album after a listing without the title:
\* create_album makes a new album, update_google_album stores its id.
AlbumCreate(r) ==
    /\ task[r].pc = "ensure"
    /\ LET id == AlbumId(Cardinality(albums) + 1)
       IN /\ albums' = albums \cup {id}
          /\ config' = [config EXCEPT !.google_album_id = id]
          /\ calls' = calls \cup {[run |-> r, op |-> "create_album", arg |-> id, ok |-> TRUE]}
          /\ task' = [task EXCEPT ![r].pc = "fetch", ![r].album_id = id,
                                  ![r].log_messages = @ + 1]
    /\ UNCHANGED <<runs, ledger, audit, cancel_events, hpc, sched, album,
                   nextMedia, armed>>

\* The engine is inside ensure_google_album with no album id loaded, before
\* list_albums or before create_album.
EnsuringAlbum(r) ==
    \/ task[r].pc = "early" /\ ~IsSet(r) /\ task[r].album_id = NoneStr
    \/ task[r].pc = "ensure"

\* Mutant of AlbumFail: the None returned by ensure_google_album is not
\* tested and run_sync goes on to the inventory.
AlbumFailContinues(r) ==
    /\ EnsuringAlbum(r)
    /\ calls' = calls \cup {[run |-> r, op |-> "ensure_album", arg |-> NoneStr, ok |-> FALSE]}
    /\ task' = [task EXCEPT ![r].pc = "fetch",
                            ![r].log_messages = @ + (IF task[r].pc = "early" THEN 2 ELSE 1)]
    /\ UNCHANGED <<runs, ledger, audit, cancel_events, hpc, sched, config, album,
                   albums, nextMedia, armed>>

\* ensure_google_album failing (list_albums or create_album raises): it
\* returns None and run_sync sets the status FAILED (no finish time, no
\* excerpt on this path) and returns.
AlbumFail(r) ==
    /\ EnsuringAlbum(r)
    /\ calls' = calls \cup {[run |-> r, op |-> "ensure_album", arg |-> NoneStr, ok |-> FALSE]}
    /\ Return(r, [runs[r] EXCEPT !.status = "FAILED"])
    /\ UNCHANGED <<ledger, audit, hpc, config, album, albums, nextMedia, armed>>

\* Mutant of FetchAssets: the size of the inventory is not recorded.
FetchAssetsTotalNotSet(r, inv) ==
    /\ task[r].pc = "fetch"
    /\ calls' = calls \cup {[run |-> r, op |-> "get_album_assets", arg |-> NoneStr, ok |-> TRUE]}
    /\ task' = [task EXCEPT ![r].pc = "loop", ![r].assets = inv, ![r].idx = 1,
                            ![r].log_messages = @ + 2]
    /\ UNCHANGED <<runs, ledger, audit, cancel_events, hpc, sched, config, album, albums,
                   nextMedia, armed>>

\* run_sync: get_album_assets returns inv; total_assets is recorded.
FetchAssets(r, inv) ==
    /\ task[r].pc = "fetch"
    /\ calls' = calls \cup {[run |-> r, op |-> "get_album_assets", arg |-> NoneStr, ok |-> TRUE]}
    /\ runs' = [runs EXCEPT ![r].total_assets = Len(inv)]
    /\ task' = [task EXCEPT ![r].pc = "loop", ![r].assets = inv, ![r].idx = 1,
                            ![r].log_messages = @ + 2]
    /\ UNCHANGED <<ledger, audit, cancel_events, hpc, sched, config, album, albums,
                   nextMedia, armed>>

\* Mutant of FetchFail: the failed listing is taken for an empty album and
\* run_sync goes on with no assets.
FetchFailAsEmpty(r) ==
    /\ task[r].pc = "fetch"
    /\ calls' = calls \cup {[run |-> r, op |-> "get_album_assets", arg |-> NoneStr, ok |-> FALSE]}
    /\ task' = [task EXCEPT ![r].pc = "loop", ![r].assets = <<>>, ![r].idx = 1,
                            ![r].log_messages = @ + 2]
    /\ UNCHANGED <<runs, ledger, audit, cancel_events, hpc, sched, config, album,
                   albums, nextMedia, armed>>

\* run_sync: get_album_assets raises; the outer handler finalises FAILED.
FetchFail(r) ==
    /\ task[r].pc = "fetch"
    /\ calls' = calls \cup {[run |-> r, op |-> "get_album_assets", arg |-> NoneStr, ok |-> FALSE]}
    /\ Return(r, Finish(runs[r], "FAILED", task[r].log_messages + 2))
    /\ UNCHANGED <<ledger, audit, hpc, config, album, albums, nextMedia, armed>>

\* Mutant of CancelInLoop: the album is still listed for orphans on the way
\* out of a cancelled run.
CancelInLoopListsAlbum(r) ==
    /\ InLoop(r)
    /\ IsSet(r)
    /\ calls' = calls \cup {[run |-> r, op |-> "list", arg |-> NoneStr, ok |-> TRUE]}
    /\ Return(r, Finish(runs[r], "CANCELLED", task[r].log_messages + 1))
    /\ UNCHANGED <<ledger, audit, hpc, config, album, albums, nextMedia, armed>>

\* run_sync loop: the check at the top of an iteration finds the event set.
CancelInLoop(r) ==
    /\ InLoop(r)
    /\ IsSet(r)
    /\ Return(r, Finish(runs[r], "CANCELLED", task[r].log_messages + 1))
    /\ UNCHANGED <<ledger, audit, hpc, config, album, albums, nextMedia, calls, armed>>

\* Mutant of SkipAsset: the original is downloaded before the row is looked at.
SkipAssetAfterDownload(r) ==
    /\ InLoop(r)
    /\ ~IsSet(r)
    /\ LET asset == CurAsset(r)
           item == ledger[asset.id]
       IN /\ ShouldSkip(item, Fingerprint(asset))
          /\ runs' = [runs EXCEPT ![r].skipped = @ + 1]
          /\ audit' = Append(audit, LogEntry(r, "SKIPPED", asset.id,
                         asset.originalFileName, item.google_media_item_id, NoneStr))
          /\ calls' = calls \cup {[run |-> r, op |-> "download", arg |-> asset.id, ok |-> TRUE]}
    /\ task' = [task EXCEPT ![r].idx = @ + 1, ![r].log_messages = @ + 2]
    /\ UNCHANGED <<ledger, cancel_events, hpc, sched, config, album, albums,
                   nextMedia, armed>>

\* Mutant of SkipAsset: the SKIPPED row replaces the asset's previous row
\* in the run log instead of being appended.
SkipAssetRewritesLog(r) ==
    /\ InLoop(r)
    /\ ~IsSet(r)
    /\ LET asset == CurAsset(r)
           item == ledger[asset.id]
       IN /\ ShouldSkip(item, Fingerprint(asset))
          /\ runs' = [runs EXCEPT ![r].skipped = @ + 1]
          /\ audit' = Append(SelectSeq(audit, LAMBDA e : e.immich_asset_id # asset.id),
                             LogEntry(r, "SKIPPED", asset.id,
                                 asset.originalFileName, item.google_media_item_id, NoneStr))
    /\ task' = [task EXCEPT ![r].idx = @ + 1, ![r].log_messages = @ + 2]
    /\ UNCHANGED <<ledger, cancel_events, hpc, sched, config, album, albums,
                   nextMedia, calls, armed>>

\* Mutant of SkipAsset: the SKIPPED row is written but the asset is not
\* counted.
SkipAssetNotCounted(r) ==
    /\ InLoop(r)
    /\ ~IsSet(r)
    /\ LET asset == CurAsset(r)
           item == ledger[asset.id]
       IN /\ ShouldSkip(item, Fingerprint(asset))
          /\ audit' = Append(audit, LogEntry(r, "SKIPPED", asset.id,
                         asset.originalFileName, item.google_media_item_id, NoneStr))
    /\ task' = [task EXCEPT ![r].idx = @ + 1, ![r].log_messages = @ + 2]
    /\ UNCHANGED <<runs, ledger, cancel_events, hpc, sched, config, album, albums,
                   nextMedia, calls, armed>>

\* sync_asset, skip branch: counter, SKIPPED log row, no adapter call.
SkipAsset(r) ==
    /\ InLoop(r)
    /\ ~IsSet(r)
    /\ LET asset == CurAsset(r)
           item == ledger[asset.id]
       IN /\ ShouldSkip(item, Fingerprint(asset))
          /\ runs' = [runs EXCEPT ![r].skipped = @ + 1]
          /\ audit' = Append(audit, LogEntry(r, "SKIPPED", asset.id,
                         asset.originalFileName, item.google_media_item_id, NoneStr))
    /\ task' = [task EXCEPT ![r].idx = @ + 1, ![r].log_messages = @ + 2]
    /\ UNCHANGED <<ledger, cancel_events, hpc, sched, config, album, albums,
                   nextMedia, calls, armed>>

\* Mutant of UploadedItem: the modification time is stored where the
\* fingerprint belongs.
UploadedItemStampOnly(asset, gid) ==
    [immich_checksum |-> asset.updatedAt,
     immich_filename |-> asset.originalFileName,
     google_media_item_id |-> gid,
     google_product_url |-> ProductUrl(gid), status |-> "OK",
     error |-> NoneStr]

\* The sync_items row after a successful upload of asset as media item gid.
UploadedItem(asset, gid) ==
    [immich_checksum |-> Fingerprint(asset),
     immich_filename |-> asset.originalFileName,
     google_media_item_id |-> gid,
     google_product_url |-> ProductUrl(gid), status |-> "OK",
     error |-> NoneStr]

\* Mutant of FailedItem: the error is stored but the status is left as it was.
FailedItemStatusKept(item, asset, err) ==
    [(IF item = NoItem THEN [NoItem EXCEPT !.status = "PENDING"] ELSE item)
        EXCEPT !.immich_filename = asset.originalFileName,
               !.error = err]

\* Mutant of FailedItem: the failed row forgets the media item it named.
FailedItemUnlinked(item, asset, err) ==
    [(IF item = NoItem THEN [NoItem EXCEPT !.status = "PENDING"] ELSE item)
        EXCEPT !.immich_filename = asset.originalFileName,
               !.google_media_item_id = NoneStr,
               !.google_product_url = NoneStr,
               !.status = "FAILED",
               !.error = err]

\* The sync_items row after a failed upload path: a row created on the spot
\* when there was none, with only filename, status and error written.
FailedItem(item, asset, err) ==
    [(IF item = NoItem THEN [NoItem EXCEPT !.status = "PENDING"] ELSE item)
        EXCEPT !.immich_filename = asset.originalFileName,
               !.status = "FAILED",
               !.error = err]

\* Mutant of UploadAsset: the media item the row named before is taken out
\* of the album when the new one is stored.
UploadAssetReplacesItem(r) ==
    /\ InLoop(r)
    /\ ~IsSet(r)
    /\ LET asset == CurAsset(r)
           gid == MediaId(nextMedia + 1)
       IN /\ ~ShouldSkip(ledger[asset.id], Fingerprint(asset))
          /\ calls' = calls \cup UploadCalls(r, asset, "ok")
          /\ nextMedia' = nextMedia + 1
          /\ album' = (album \ {ledger[asset.id].google_media_item_id}) \cup {gid}
          /\ ledger' = [ledger EXCEPT ![asset.id] = UploadedItem(asset, gid)]
          /\ audit' = Append(audit, LogEntry(r, "UPLOADED", asset.id,
                         asset.originalFileName, gid, NoneStr))
          /\ runs' = [runs EXCEPT ![r].uploaded = @ + 1]
    /\ task' = [task EXCEPT ![r].idx = @ + 1,
                            ![r].log_messages = @ + UploadLogLines("ok")]
    /\ UNCHANGED <<cancel_events, hpc, sched, config, albums, armed>>

\* Mutant of UploadAsset: the UPLOADED log row is not written.
UploadAssetNoLogRow(r) ==
    /\ InLoop(r)
    /\ ~IsSet(r)
    /\ LET asset == CurAsset(r)
           gid == MediaId(nextMedia + 1)
       IN /\ ~ShouldSkip(ledger[asset.id], Fingerprint(asset))
          /\ calls' = calls \cup UploadCalls(r, asset, "ok")
          /\ nextMedia' = nextMedia + 1
          /\ album' = album \cup {gid}
          /\ ledger' = [ledger EXCEPT ![asset.id] = UploadedItem(asset, gid)]
          /\ runs' = [runs EXCEPT ![r].uploaded = @ + 1]
    /\ task' = [task EXCEPT ![r].idx = @ + 1,
                            ![r].log_messages = @ + UploadLogLines("ok")]
    /\ UNCHANGED <<audit, cancel_events, hpc, sched, config, albums, armed>>

\* sync_asset, upload path with download, upload and batch_create succeeding.
UploadAsset(r) ==
    /\ InLoop(r)
    /\ ~IsSet(r)
    /\ LET asset == CurAsset(r)
           gid == MediaId(nextMedia + 1)
       IN /\ ~ShouldSkip(ledger[asset.id], Fingerprint(asset))
          /\ calls' = calls \cup UploadCalls(r, asset, "ok")
          /\ nextMedia' = nextMedia + 1
          /\ album' = album \cup {gid}
          /\ ledger' = [ledger EXCEPT ![asset.id] = UploadedItem(asset, gid)]
          /\ audit' = Append(audit, LogEntry(r, "UPLOADED", asset.id,
                         asset.originalFileName, gid, NoneStr))
          /\ runs' = [runs EXCEPT ![r].uploaded = @ + 1]
    /\ task' = [task EXCEPT ![r].idx = @ + 1,
                            ![r].log_messages = @ + UploadLogLines("ok")]
    /\ UNCHANGED <<cancel_events, hpc, sched, config, albums, armed>>

\* Mutant of FailAsset: the exception is not caught per asset and reaches
\* run_sync's outer handler, which finalises the run FAILED.
FailAssetAborts(r, outcome) ==
    /\ InLoop(r)
    /\ ~IsSet(r)
    /\ outcome # "ok"
    /\ LET asset == CurAsset(r)
       IN /\ ~ShouldSkip(ledger[asset.id], Fingerprint(asset))
          /\ calls' = calls \cup UploadCalls(r, asset, outcome)
          /\ Return(r, Finish(runs[r], "FAILED",
                                task[r].log_messages + UploadLogLines(outcome)))
    /\ UNCHANGED <<ledger, audit, hpc, config, album, albums, nextMedia, armed>>

\* Mutant of FailAsset: the failure is counted and stored in the row but
\* no FAILED log row is written.
FailAssetNoLogRow(r, outcome) ==
    /\ InLoop(r)
    /\ ~IsSet(r)
    /\ outcome # "ok"
    /\ LET asset == CurAsset(r)
       IN /\ ~ShouldSkip(ledger[asset.id], Fingerprint(asset))
          /\ calls' = calls \cup UploadCalls(r, asset, outcome)
          /\ ledger' = [ledger EXCEPT ![asset.id] =
                          FailedItem(@, asset, ErrorText(outcome))]
          /\ runs' = [runs EXCEPT ![r].failed = @ + 1]
    /\ task' = [task EXCEPT ![r].idx = @ + 1,
                            ![r].log_messages = @ + UploadLogLines(outcome)]
    /\ UNCHANGED <<audit, cancel_events, hpc, sched, config, album, albums,
                   nextMedia, armed>>

\* sync_asset, upload path with one of its steps raising: the except branch.
FailAsset(r, outcome) ==
    /\ InLoop(r)
    /\ ~IsSet(r)
    /\ outcome # "ok"
    /\ LET asset == CurAsset(r)
       IN /\ ~ShouldSkip(ledger[asset.id], Fingerprint(asset))
          /\ calls' = calls \cup UploadCalls(r, asset, outcome)
          /\ audit' = Append(audit, LogEntry(r, "FAILED", asset.id,
                         asset.originalFileName, NoneStr, ErrorText(outcome)))
          /\ ledger' = [ledger EXCEPT ![asset.id] =
                          FailedItem(@, asset, ErrorText(outcome))]
          /\ runs' = [runs EXCEPT ![r].failed = @ + 1]
    /\ task' = [task EXCEPT ![r].idx = @ + 1,
                            ![r].log_messages = @ + UploadLogLines(outcome)]
    /\ UNCHANGED <<cancel_events, hpc, sched, config, album, albums, nextMedia, armed>>

\* --------------------------------------------------- delete_orphaned_assets
\* current_immich_ids = {asset["id"] for asset in current_immich_assets}
CurrentImmichIds(r) == { task[r].assets[i].id : i \in 1..Len(task[r].assets) }

\* Mutant of OrphanedItems: the run's inventory is not consulted.
OrphanedItemsAnyAsset(r, listing) ==
    { k \in AssetIds :
        /\ ledger[k] # NoItem
        /\ ledger[k].google_media_item_id # NoneStr
        /\ ledger[k].google_media_item_id \in listing }

\* Mutant of OrphanedItems: rows that are not OK are passed over.
OrphanedItemsOkOnly(r, listing) ==
    { k \in AssetIds :
        /\ ledger[k] # NoItem
        /\ ledger[k].status = "OK"
        /\ ledger[k].google_media_item_id # NoneStr
        /\ ledger[k].google_media_item_id \in listing
        /\ k \notin CurrentImmichIds(r) }

\* Mutant of OrphanedItems: rows without a media item id count as orphans
\* too once their asset has left the inventory.
OrphanedItemsWithoutItem(r, listing) ==
    { k \in AssetIds :
        /\ ledger[k] # NoItem
        /\ \/ ledger[k].google_media_item_id = NoneStr
           \/ ledger[k].google_media_item_id \in listing
        /\ k \notin CurrentImmichIds(r) }

\* The sync items selected as orphans: rows with a media item id that the
\* album listing contains and whose asset is not in the run's inventory.
OrphanedItems(r, listing) ==
    { k \in AssetIds :
        /\ ledger[k] # NoItem
        /\ ledger[k].google_media_item_id # NoneStr
        /\ ledger[k].google_media_item_id \in listing
        /\ k \notin CurrentImmichIds(r) }

\* google_ids_to_delete = [item["google_id"] for item in orphaned_items]
GoogleIdsToDelete(r, listing) ==
    { ledger[k].google_media_item_id : k \in OrphanedItems(r, listing) }

\* Listed media items that no sync_items row names: each gets the line
\* "Skipping media item without sync record".
Unlinked(listing) ==
    { g \in listing : \A k \in AssetIds : ledger[k].google_media_item_id # g }

\* An error string of delete_media_items, as the pieces of text it is made
\* of: "Item <id>: <reason>".
ErrorLine(g) == <<"Item ", g, ":", " ", "not removed">>

\* GooglePhotosClient.delete_media_items: the ids in failedIds could not be
\* removed and are reported, one error string per id, in result["errors"].
DeleteResult(ids, failedIds) ==
    [deleted |-> Cardinality(ids \ failedIds),
     failed  |-> Cardinality(failedIds),
     errors  |-> { ErrorLine(g) : g \in failedIds }]

\* err.split(":")[0]
BeforeColon(line) ==
    IF \E i \in DOMAIN line : line[i] = ":"
    THEN SubSeq(line, 1, (CHOOSE i \in DOMAIN line :
                            /\ line[i] = ":"
                            /\ \A j \in 1..(i - 1) : line[j] # ":") - 1)
    ELSE line

\* err.split(":")[0].replace("Item ", "").strip()
ParsedId(line) == SelectSeq(BeforeColon(line), LAMBDA t : t \notin {"Item ", " "})

\* Mutant of WasRemoved: the "Item " prefix is not taken off before the
\* comparison.
WasRemovedPrefixKept(gid, result) ==
    \A e \in result.errors :
        SelectSeq(BeforeColon(e), LAMBDA t : t # " ") # <<gid>>

\* was_removed = google_id not in [id parsed from err for err in errors]
WasRemoved(gid, result) == \A e \in result.errors : ParsedId(e) # <<gid>>

\* Lines logged by delete_orphaned_assets up to and including its scan of
\* the listing: "Checking for orphaned assets" and one per unlinked item.
ScanLogLines(listing) == 1 + Cardinality(Unlinked(listing))

\* for error in result["errors"][:10]: one line each
ErrorLogLines(result) ==
    IF Cardinality(result.errors) > LoggedErrors THEN LoggedErrors
    ELSE Cardinality(result.errors)

\* The orders in which a listing can present the members of S.
Orderings(S) ==
    { s \in [1..Cardinality(S) -> S] : \A x \in S : \E i \in DOMAIN s : s[i] = x }

\* The DELETED log rows, in the order the orphans were found.
RECURSIVE DeletedEntries(_, _, _)
DeletedEntries(r, ord, result) ==
    IF ord = <<>> THEN <<>>
    ELSE LET k == Head(ord)
             gid == ledger[k].google_media_item_id
             fname == IF ledger[k].immich_filename = NoneStr
                      THEN "unknown" ELSE ledger[k].immich_filename
         IN (IF WasRemoved(gid, result)
             THEN <<LogEntry(r, "DELETED", k, fname, gid, NoneStr)>>
             ELSE <<>>) \o DeletedEntries(r, Tail(ord), result)

AtOrphanPhase(r) == task[r].pc = "loop" /\ task[r].idx > Len(task[r].assets)

\* delete_orphaned_assets returning at its own cancel check; run_sync then
\* finalises the run OK.
OrphanSkipCancelled(r) ==
    /\ AtOrphanPhase(r)
    /\ IsSet(r)
    /\ Return(r, Finish(runs[r], "OK", task[r].log_messages + 1))
    /\ UNCHANGED <<ledger, audit, hpc, config, album, albums, nextMedia, calls, armed>>

\* Mutant of OrphanListFail: the exception leaves delete_orphaned_assets and
\* reaches run_sync's outer handler.
OrphanListFailAborts(r) ==
    /\ AtOrphanPhase(r)
    /\ ~IsSet(r)
    /\ calls' = calls \cup {[run |-> r, op |-> "list", arg |-> NoneStr, ok |-> FALSE]}
    /\ Return(r, Finish(runs[r], "FAILED", task[r].log_messages + 2))
    /\ UNCHANGED <<ledger, audit, hpc, config, album, albums, nextMedia, armed>>

\* list_album_media_items raises: logged, the phase ends, the run ends OK.
OrphanListFail(r) ==
    /\ AtOrphanPhase(r)
    /\ ~IsSet(r)
    /\ calls' = calls \cup {[run |-> r, op |-> "list", arg |-> NoneStr, ok |-> FALSE]}
    /\ Return(r, Finish(runs[r], "OK", task[r].log_messages + 2))
    /\ UNCHANGED <<ledger, audit, hpc, config, album, albums, nextMedia, armed>>

\* The listing is empty or holds no orphan: nothing is deleted.
OrphanNone(r) ==
    /\ AtOrphanPhase(r)
    /\ ~IsSet(r)
    /\ (album = {} \/ OrphanedItems(r, album) = {})
    /\ calls' = calls \cup {[run |-> r, op |-> "list", arg |-> NoneStr, ok |-> TRUE]}
    /\ Return(r, Finish(runs[r], "OK",
                        task[r].log_messages
                          + (IF album = {} THEN 2 ELSE ScanLogLines(album) + 1)))
    /\ UNCHANGED <<ledger, audit, hpc, config, album, albums, nextMedia, armed>>

\* Mutant of LedgerAfterDelete: the rows of all candidates are dropped,
\* removed or not.
LedgerAfterDeleteDropsAll(orphans, result) ==
    [k \in AssetIds |-> IF k \notin orphans THEN ledger[k] ELSE NoItem]

\* Mutant of LedgerAfterDelete: the rows of removed media items are kept.
LedgerAfterDeleteKeepsRows(orphans, result) ==
    [k \in AssetIds |->
        IF k \notin orphans THEN ledger[k]
        ELSE IF WasRemoved(ledger[k].google_media_item_id, result) THEN ledger[k]
        ELSE [ledger[k] EXCEPT !.status = "ORPHANED",
                               !.error = "Failed to remove from Google Photos album"]]

\* The sync_items table after the delete call answered with result.
LedgerAfterDelete(orphans, result) ==
    [k \in AssetIds |->
        IF k \notin orphans THEN ledger[k]
        ELSE IF WasRemoved(ledger[k].google_media_item_id, result) THEN NoItem
        ELSE [ledger[k] EXCEPT !.status = "ORPHANED",
                               !.error = "Failed to remove from Google Photos album"]]

\* Orphans found and delete_media_items answers: the ids in failedIds were
\* not removed; the other rows are deleted, the failed ones marked ORPHANED.
OrphanDelete(r, failedIds, ord) ==
    /\ AtOrphanPhase(r)
    /\ ~IsSet(r)
    /\ LET orphans == OrphanedItems(r, album)
           ids == GoogleIdsToDelete(r, album)
           result == DeleteResult(ids, failedIds)
           removed == { k \in orphans : WasRemoved(ledger[k].google_media_item_id, result) }
       IN /\ orphans # {}
          /\ failedIds \subseteq ids
          /\ ord \in Orderings(orphans)
          /\ calls' = calls
                \cup {[run |-> r, op |-> "list", arg |-> NoneStr, ok |-> TRUE]}
                \cup {[run |-> r, op |-> "delete", arg |-> g, ok |-> g \notin failedIds] : g \in ids}
          /\ album' = album \ (ids \ failedIds)
          /\ audit' = audit \o DeletedEntries(r, ord, result)
          /\ ledger' = LedgerAfterDelete(orphans, result)
          /\ Return(r, Finish([runs[r] EXCEPT !.deleted = @ + Cardinality(removed)], "OK",
                              task[r].log_messages + ScanLogLines(album) + 3
                                + ErrorLogLines(result)))
    /\ UNCHANGED <<hpc, config, albums, nextMedia, armed>>

\* Orphans found but delete_media_items raises: logged, no row is touched.
OrphanDeleteRaises(r) ==
    /\ AtOrphanPhase(r)
    /\ ~IsSet(r)
    /\ OrphanedItems(r, album) # {}
    /\ calls' = calls
          \cup {[run |-> r, op |-> "list", arg |-> NoneStr, ok |-> TRUE]}
          \cup {[run |-> r, op |-> "delete", arg |-> g, ok |-> FALSE] :
                   g \in GoogleIdsToDelete(r, album)}
    /\ Return(r, Finish(runs[r], "OK",
                        task[r].log_messages + ScanLogLines(album) + 3))
    /\ UNCHANGED <<ledger, audit, hpc, config, album, albums, nextMedia, armed>>

\* ------------------------------------------------------------ specification
\* What one SyncEngine coroutine can do next.
EngineStep(r) ==
    \/ ConstructInitOk(r)
    \/ ConstructInitFail(r)
    \/ EarlyCancel(r)
    \/ AlbumCached(r)
    \/ AlbumList(r)
    \/ AlbumCreate(r)
    \/ AlbumFail(r)
    \/ \E inv \in Inventories : FetchAssets(r, inv)
    \/ FetchFail(r)
    \/ CancelInLoop(r)
    \/ SkipAsset(r)
    \/ UploadAsset(r)
    \/ \E o \in UploadOutcomes : FailAsset(r, o)
    \/ OrphanSkipCancelled(r)
    \/ OrphanListFail(r)
    \/ OrphanNone(r)
    \/ \E f \in SUBSET album, ord \in Orderings(OrphanedItems(r, album)) :
          OrphanDelete(r, f, ord)
    \/ OrphanDeleteRaises(r)

\* The service with the schedule off (sync_enabled defaults to False): runs
\* come from the HTTP route only.
Next ==
    \/ \E h \in Handlers : TriggerReject(h)
    \/ \E h \in Handlers : TriggerCheck(h)
    \/ \E h \in Handlers : TriggerCreate(h)
    \/ \E r \in RunIds : CancelRequest(r)
    \/ \E r \in RunIds : CancelNotFound(r)
    \/ \E r \in RunIds : EngineStep(r)

Spec == Init /\ [][Next]_vars

\* The service with the schedule on: the scheduled job is a second source
\* of runs, concurrent with the HTTP route.
NextSched ==
    \/ Next
    \/ SchedSkipDisabled
    \/ SchedSkipRunning
    \/ SchedCheck
    \/ SchedCreate

SpecSched == Init /\ [][NextSched]_vars

\* Mirrored: an earlier run uploaded A1 and B1 (media items g1, g2) and both
\* rows are OK.
MirroredLedger ==
    [a \in AssetIds |->
        IF a = "a" THEN UploadedItem(A1, MediaId(1))
        ELSE IF a = "b" THEN UploadedItem(B1, MediaId(2))
        ELSE NoItem]

\* The service starting on the mirrored ledger.  The album holds the user's
\* own photo and g1, and g2 unless the user has taken it out of the album in
\* Google Photos; the stored album id is there, or was reset by a Google
\* disconnect (routes/auth.py) followed by a new connect.
InitRoundTrip ==
    /\ runs = <<>>
    /\ audit = <<>>
    /\ cancel_events = [r \in RunIds |-> "absent"]
    /\ task = [r \in RunIds |-> NoTask]
    /\ hpc = [h \in Handlers |-> "idle"]
    /\ sched = "idle"
    /\ calls = {}
    /\ armed = [r \in RunIds |-> "no"]
    /\ ledger = MirroredLedger
    /\ nextMedia = 2
    /\ album \in { {ForeignItem, MediaId(1), MediaId(2)}, {ForeignItem, MediaId(1)} }
    /\ albums = {AlbumId(1)}
    /\ config \in { [google_album_id |-> AlbumId(1)], [google_album_id |-> NoneStr] }

\* What one SyncEngine coroutine can do next when the Immich album is the
\* one of InventoriesRoundTrip.  The Google album of the mirror exists from
\* the start, so list_albums always finds it and create_album is not
\* reached.
EngineStepRoundTrip(r) ==
    \/ ConstructInitOk(r)
    \/ ConstructInitFail(r)
    \/ EarlyCancel(r)
    \/ AlbumCached(r)
    \/ AlbumList(r)
    \/ AlbumFail(r)
    \/ \E inv \in InventoriesRoundTrip : FetchAssets(r, inv)
    \/ FetchFail(r)
    \/ CancelInLoop(r)
    \/ SkipAsset(r)
    \/ UploadAsset(r)
    \/ \E o \in UploadOutcomes : FailAsset(r, o)
    \/ OrphanSkipCancelled(r)
    \/ OrphanListFail(r)
    \/ OrphanNone(r)
    \/ \E f \in SUBSET album, ord \in Orderings(OrphanedItems(r, album)) :
          OrphanDelete(r, f, ord)
    \/ OrphanDeleteRaises(r)

NextRoundTrip ==
    \/ \E h \in Handlers : TriggerReject(h)
    \/ \E h \in Handlers : TriggerCheck(h)
    \/ \E h \in Handlers : TriggerCreate(h)
    \/ \E r \in RunIds : CancelRequest(r)
    \/ \E r \in RunIds : CancelNotFound(r)
    \/ \E r \in RunIds : EngineStepRoundTrip(r)

\* The service started on the mirrored ledger, with the changed Immich album.
SpecRoundTrip == InitRoundTrip /\ [][NextRoundTrip]_vars

\* ------------------------------------------------------- the process stops
\* The positions at which a run_sync coroutine (or the background task that
\* will construct it) is alive.
Active == {"created", "early", "ensure", "fetch", "loop"}

\* The process is killed and started again: every coroutine is gone, the
\* in-memory registry, the requests in progress and the scheduled job with
\* it.  The database holds what was committed.
Halt ==
    /\ task' = [x \in RunIds |->
                  IF task[x].pc \in Active THEN [task[x] EXCEPT !.pc = "stopped"]
                  ELSE task[x]]
    /\ cancel_events' = [x \in RunIds |-> "absent"]
    /\ hpc' = [h \in Handlers |-> "idle"]
    /\ sched' = "idle"

\* The process stops while run r is between two of the steps above, or
\* inside a step before its first commit (skip path included: its counter
\* and log row are committed by run_sync only after sync_asset returns).
CrashAtRest(r) ==
    /\ task[r].pc \in Active
    /\ Halt
    /\ UNCHANGED <<runs, ledger, audit, config, album, albums, nextMedia,
                   calls, armed>>

\* The commit points of the successful upload path: the media item exists
\* ("create"), the sync_items row is committed ("item", line 220), the
\* UPLOADED log row is committed ("log", line 231).  The counter is
\* committed by run_sync after sync_asset returns (line 440).
UploadPoints == {"create", "item", "log"}

\* The process stops inside the upload path of the current asset of run r,
\* after the commit point named.
CrashInUpload(r, point) ==
    /\ InLoop(r)
    /\ ~IsSet(r)
    /\ LET asset == CurAsset(r)
           gid == MediaId(nextMedia + 1)
       IN /\ ~ShouldSkip(ledger[asset.id], Fingerprint(asset))
          /\ calls' = calls \cup UploadCalls(r, asset, "ok")
          /\ nextMedia' = nextMedia + 1
          /\ album' = album \cup {gid}
          /\ ledger' = IF point \in {"item", "log"}
                       THEN [ledger EXCEPT ![asset.id] = UploadedItem(asset, gid)]
                       ELSE ledger
          /\ audit' = IF point = "log"
                      THEN Append(audit, LogEntry(r, "UPLOADED", asset.id,
                                      asset.originalFileName, gid, NoneStr))
                      ELSE audit
    /\ Halt
    /\ UNCHANGED <<runs, config, albums, armed>>

\* The process stops inside the except branch of sync_asset after its
\* commit (line 258): log row and sync_items row are stored, the counter
\* is not.
CrashInFail(r, outcome) ==
    /\ InLoop(r)
    /\ ~IsSet(r)
    /\ outcome # "ok"
    /\ LET asset == CurAsset(r)
       IN /\ ~ShouldSkip(ledger[asset.id], Fingerprint(asset))
          /\ calls' = calls \cup UploadCalls(r, asset, outcome)
          /\ audit' = Append(audit, LogEntry(r, "FAILED", asset.id,
                         asset.originalFileName, NoneStr, ErrorText(outcome)))
          /\ ledger' = [ledger EXCEPT ![asset.id] =
                          FailedItem(@, asset, ErrorText(outcome))]
    /\ Halt
    /\ UNCHANGED <<runs, config, album, albums, nextMedia, armed>>

\* The commit points of the orphan phase: delete_media_items has answered
\* ("removed"), the rows and the counter are committed ("commit", line 378).
\* The status is written afterwards (lines 446-450).
OrphanPoints == {"removed", "commit"}

\* The process stops inside delete_orphaned_assets after the point named.
CrashInOrphanDelete(r, failedIds, ord, point) ==
    /\ AtOrphanPhase(r)
    /\ ~IsSet(r)
    /\ LET orphans == OrphanedItems(r, album)
           ids == GoogleIdsToDelete(r, album)
           result == DeleteResult(ids, failedIds)
           removed == { k \in orphans : WasRemoved(ledger[k].google_media_item_id, result) }
       IN /\ orphans # {}
          /\ failedIds \subseteq ids
          /\ ord \in Orderings(orphans)
          /\ calls' = calls
                \cup {[run |-> r, op |-> "list", arg |-> NoneStr, ok |-> TRUE]}
                \cup {[run |-> r, op |-> "delete", arg |-> g, ok |-> g \notin failedIds] : g \in ids}
          /\ album' = album \ (ids \ failedIds)
          /\ audit' = IF point = "commit"
                      THEN audit \o DeletedEntries(r, ord, result) ELSE audit
          /\ ledger' = IF point = "commit"
                       THEN LedgerAfterDelete(orphans, result) ELSE ledger
          /\ runs' = IF point = "commit"
                     THEN [runs EXCEPT ![r].deleted = @ + Cardinality(removed)]
                     ELSE runs
    /\ Halt
    /\ UNCHANGED <<config, albums, nextMedia, armed>>

\* The service with the process allowed to stop while a run is in progress.
NextCrash ==
    \/ Next
    \/ \E r \in RunIds : CrashAtRest(r)
    \/ \E r \in RunIds, pt \in UploadPoints : CrashInUpload(r, pt)
    \/ \E r \in RunIds, o \in UploadOutcomes : CrashInFail(r, o)
    \/ \E r \in RunIds, f \in SUBSET album, pt \in OrphanPoints :
          \E ord \in Orderings(OrphanedItems(r, album)) :
             CrashInOrphanDelete(r, f, ord, pt)

SpecCrash == Init /\ [][NextCrash]_vars

\* A run whose engine went away with the process.
Stopped(r) == task[r].pc = "stopped"

\* main.py lifespan at a start that finds rows of earlier runs: init_db
\* creates missing tables, the scheduler is started and its job installed
\* from the configuration; no row of sync_runs is read or written.
StartUp ==
    /\ \E r \in RunIds : Stopped(r)
    /\ UNCHANGED vars

\* The Immich album as the restarted service is handed it: empty, or
\* holding the edited "a".
InventoriesRestart == { <<>>, <<A2>> }

\* The restarted service is observed from a new database.
InitRestart ==
    /\ Init
    /\ ledger = FreshStore.ledger

\* What one SyncEngine coroutine can do next when the Immich album is one
\* of InventoriesRestart.
EngineStepRestart(r) ==
    \/ ConstructInitOk(r)
    \/ ConstructInitFail(r)
    \/ EarlyCancel(r)
    \/ AlbumCached(r)
    \/ AlbumList(r)
    \/ AlbumCreate(r)
    \/ AlbumFail(r)
    \/ \E inv \in InventoriesRestart : FetchAssets(r, inv)
    \/ FetchFail(r)
    \/ CancelInLoop(r)
    \/ SkipAsset(r)
    \/ UploadAsset(r)
    \/ \E o \in UploadOutcomes : FailAsset(r, o)
    \/ OrphanSkipCancelled(r)
    \/ OrphanListFail(r)
    \/ OrphanNone(r)
    \/ \E f \in SUBSET album, ord \in Orderings(OrphanedItems(r, album)) :
          OrphanDelete(r, f, ord)
    \/ OrphanDeleteRaises(r)

\* The service with the schedule on and the process allowed to stop and
\* start again while a run is in progress.
NextRestart ==
    \/ \E h \in Handlers : TriggerReject(h)
    \/ \E h \in Handlers : TriggerCheck(h)
    \/ \E h \in Handlers : TriggerCreate(h)
    \/ \E r \in RunIds : CancelRequest(r)
    \/ \E r \in RunIds : CancelNotFound(r)
    \/ \E r \in RunIds : EngineStepRestart(r)
    \/ SchedSkipDisabled
    \/ SchedSkipRunning
    \/ SchedCheck
    \/ SchedCreate
    \/ StartUp
    \/ \E r \in RunIds : CrashAtRest(r)
    \/ \E r \in RunIds, pt \in UploadPoints : CrashInUpload(r, pt)
    \/ \E r \in RunIds, o \in UploadOutcomes : CrashInFail(r, o)
    \/ \E r \in RunIds, f \in SUBSET album, pt \in OrphanPoints :
          \E ord \in Orderings(OrphanedItems(r, album)) :
             CrashInOrphanDelete(r, f, ord, pt)

SpecRestart == InitRestart /\ [][NextRestart]_vars

\* ----------------------------------- utils/encryption.py, utils/config.py
\* Text is a sequence of code points, bytes are a sequence of 0..255.
Slash == 47           \* "/"
LetterH == 104        \* "h"
LetterK == 107        \* "k"
EAcute == 233         \* U+00E9, two bytes in UTF-8

\* None in a text column of app_config.
NoneText == <<-1>>

\* The URLs and API keys handed to the settings route.
Urls == { <<>>, <<Slash>>, <<LetterH>>, <<LetterH, Slash>>,
          <<LetterH, Slash, Slash>>, <<LetterH, Slash, LetterH>> }
Keys == { <<>>, <<LetterK>>, <<EAcute>>, <<LetterK, EAcute>> }

\* The initialisation vectors Fernet may draw for a token.
IVs == {1, 2}

\* str.encode(): UTF-8, one byte below U+0080, two bytes below U+0800.
RECURSIVE Utf8Encode(_)
Utf8Encode(text) ==
    IF text = <<>> THEN <<>>
    ELSE (IF Head(text) < 128 THEN <<Head(text)>>
          ELSE <<192 + (Head(text) \div 64), 128 + (Head(text) % 64)>>)
         \o Utf8Encode(Tail(text))

\* bytes.decode(): UTF-8.
RECURSIVE Utf8Decode(_)
Utf8Decode(bytes) ==
    IF bytes = <<>> THEN <<>>
    ELSE IF Head(bytes) < 128
         THEN <<Head(bytes)>> \o Utf8Decode(Tail(bytes))
         ELSE <<(Head(bytes) - 192) * 64 + (bytes[2] - 128)>>
              \o Utf8Decode(Tail(Tail(bytes)))

\* Fernet.encrypt under the process's key: a token made of the version
\* byte, the initialisation vector and the enciphered data (as the text the
\* token is returned as; timestamp and signature are left out).
FernetEncrypt(data, iv) ==
    <<128, iv>> \o [i \in 1..Len(data) |-> (data[i] + 16 * iv + i) % 256]

\* Fernet.decrypt of a token made under the same key.
FernetDecrypt(token) ==
    [i \in 1..(Len(token) - 2) |-> (token[i + 2] + 512 - 16 * token[2] - i) % 256]

\* Mutant of Decrypt: the token is decoded as text without being deciphered.
DecryptNotDeciphered(ciphertext) ==
    IF ciphertext = <<>> \/ ciphertext = NoneText THEN <<>>
    ELSE SubSeq(ciphertext, 3, Len(ciphertext))

\* EncryptionHelper.encrypt
Encrypt(plaintext, iv) ==
    IF plaintext = <<>> THEN <<>>
    ELSE FernetEncrypt(Utf8Encode(plaintext), iv)

\* EncryptionHelper.decrypt
Decrypt(ciphertext) ==
    IF ciphertext = <<>> \/ ciphertext = NoneText THEN <<>>
    ELSE Utf8Decode(FernetDecrypt(ciphertext))

\* str.rstrip('/')
RECURSIVE RStripSlash(_)
RStripSlash(text) ==
    IF text # <<>> /\ text[Len(text)] = Slash
    THEN RStripSlash(SubSeq(text, 1, Len(text) - 1))
    ELSE text

\* AppConfig(id=1): the columns the settings route writes.
DefaultConfigRow == [id |-> 1, immich_url |-> NoneText, immich_api_key_enc |-> NoneText]

\* Mutant of GetConfig: the row is added without looking for one.
GetConfigAlwaysAdds(table) == Append(table, DefaultConfigRow)

\* ConfigManager.get_config on the app_config table (a sequence of rows):
\* the table afterwards; the row returned is the one with id 1.
GetConfig(table) ==
    IF \E i \in DOMAIN table : table[i].id = 1 THEN table
    ELSE Append(table, DefaultConfigRow)

\* select(AppConfig).where(AppConfig.id == 1)
ConfigRow(table) == table[CHOOSE i \in DOMAIN table : table[i].id = 1]

\* ConfigManager.get_immich_api_key
GetImmichApiKey(row) ==
    IF row.immich_api_key_enc = <<>> \/ row.immich_api_key_enc = NoneText THEN <<>>
    ELSE Decrypt(row.immich_api_key_enc)

\* In the specification of the settings code the variable config holds the
\* app_config table and calls holds the last call made with what it
\* returned; the other variables stay as the fresh service has them.
InitConfig ==
    /\ runs = <<>>
    /\ audit = <<>>
    /\ cancel_events = [r \in RunIds |-> "absent"]
    /\ task = [r \in RunIds |-> NoTask]
    /\ hpc = [h \in Handlers |-> "idle"]
    /\ sched = "idle"
    /\ armed = [r \in RunIds |-> "no"]
    /\ ledger = FreshStore.ledger
    /\ album = FreshStore.album
    /\ albums = FreshStore.albums
    /\ nextMedia = FreshStore.nextMedia
    /\ config = <<>>
    /\ calls = {}

\* A call of ConfigManager.get_config.
ConfigGet ==
    /\ config' = GetConfig(config)
    /\ calls' = {[op |-> "get_config", arg |-> <<>>, result |-> ConfigRow(config')]}
    /\ UNCHANGED <<runs, ledger, audit, cancel_events, task, hpc, sched, album, albums,
                   nextMedia, armed>>

\* A call of ConfigManager.update_immich_config(db, url, key).
ConfigUpdateImmich(url, key, iv) ==
    /\ LET table == GetConfig(config)
           j == CHOOSE i \in DOMAIN table : table[i].id = 1
           row == [table[j] EXCEPT !.immich_url = RStripSlash(url),
                                   !.immich_api_key_enc = Encrypt(key, iv)]
       IN /\ config' = [table EXCEPT ![j] = row]
          /\ calls' = {[op |-> "update_immich_config", arg |-> <<url, key>>,
                        result |-> row]}
    /\ UNCHANGED <<runs, ledger, audit, cancel_events, task, hpc, sched, album, albums,
                   nextMedia, armed>>

\* A call of encryption.encrypt(text).
EncryptCall(text, iv) ==
    /\ calls' = {[op |-> "encrypt", arg |-> text, result |-> Encrypt(text, iv)]}
    /\ UNCHANGED <<runs, ledger, audit, cancel_events, task, hpc, sched, config,
                   album, albums, nextMedia, armed>>

\* A call of encryption.decrypt on what the last encrypt call returned.
DecryptCall ==
    /\ \E c \in calls :
          /\ c.op = "encrypt"
          /\ calls' = {[op |-> "decrypt", arg |-> c.result,
                        result |-> Decrypt(c.result), plaintext |-> c.arg]}
    /\ UNCHANGED <<runs, ledger, audit, cancel_events, task, hpc, sched, config,
                   album, albums, nextMedia, armed>>

NextConfig ==
    \/ ConfigGet
    \/ \E url \in Urls, key \in Keys, iv \in IVs : ConfigUpdateImmich(url, key, iv)
    \/ \E text \in Urls \cup Keys, iv \in IVs : EncryptCall(text, iv)
    \/ DecryptCall

SpecConfig == InitConfig /\ [][NextConfig]_vars

\* The service as scheduled by the event loop: a coroutine that can take a
\* step is eventually resumed (the background task is started once the
\* response is sent, every await on the database or an adapter returns or
\* raises).
SpecLive == Spec /\ \A r \in RunIds : WF_vars(EngineStep(r))

\* ================================================================== claims
\* The sync_run_logs rows of run r, in order.
AuditOf(r) == SelectSeq(audit, LAMBDA e : e.sync_run_id = r)

\* The adapter calls run r has issued.
CallsOf(r) == { c \in calls : c.run = r }

\* This step processed the current asset of run r (skip or upload path).
Processed(r) == InLoop(r) /\ task'[r].idx = task[r].idx + 1

\* The row of asset exists, holds the asset's fingerprint and is OK.
UnchangedOk(asset) ==
    /\ ledger[asset.id] # NoItem
    /\ ledger[asset.id].immich_checksum = Fingerprint(asset)
    /\ ledger[asset.id].status = "OK"

\* C1: in every reachable state at most one sync_runs row has status RUNNING,
\* whatever the interleaving of manual triggers and the scheduled job.
C1_AtMostOneRunning == Cardinality(RunningRuns) <= 1

\* C2: every media item id handed to the delete call is, when the call is
\* made, the id stored in a ledger row whose asset is not in the calling run's
\* inventory; and every item that leaves the album was linked by a ledger row.
C2_DeleteOnlyLedgerOrphans ==
    [][ /\ \A c \in calls' \ calls :
             c.op = "delete" =>
                \E k \in AssetIds :
                    /\ ledger[k] # NoItem
                    /\ ledger[k].google_media_item_id = c.arg
                    /\ k \notin CurrentImmichIds(c.run)
        /\ \A g \in album \ album' :
             \E k \in AssetIds :
                 ledger[k] # NoItem /\ ledger[k].google_media_item_id = g
      ]_vars

\* C2 witness: a delete was issued and went through, next to an unlinked item.
C2_Witness ==
    /\ \E c \in calls : c.op = "delete" /\ c.ok
    /\ ForeignItem \in album

\* C3: rows are created RUNNING, are never removed, and a row that is OK,
\* FAILED or CANCELLED never changes status again.
C3_TerminalIsFinal ==
    [][ /\ Len(runs') >= Len(runs)
        /\ \A r \in 1..Len(runs) :
             runs[r].status \in TerminalStatus => runs'[r].status = runs[r].status
        /\ \A r \in (Len(runs) + 1)..Len(runs') : runs'[r].status = "RUNNING"
      ]_vars

\* C3 witness: a run ended CANCELLED and a later run went all the way to OK.
C3_Witness ==
    /\ Len(runs) = 2
    /\ runs[1].status = "CANCELLED"
    /\ runs[2].status = "OK"

\* C4: an asset is skipped exactly when its row exists with the asset's
\* fingerprint and status OK; otherwise it goes down the upload path (its
\* original is downloaded and the outcome is UPLOADED or FAILED).
C4_SkipIffUnchangedOk ==
    [][ \A r \in RunIds :
          Processed(r) =>
            LET asset == CurAsset(r)
                entry == audit'[Len(audit')]
                fetched == \E c \in calls' \ calls :
                              c.run = r /\ c.op = "download" /\ c.arg = asset.id
            IN /\ Len(audit') = Len(audit) + 1
               /\ entry.sync_run_id = r
               /\ entry.immich_asset_id = asset.id
               /\ (entry.action = "SKIPPED") <=> UnchangedOk(asset)
               /\ (entry.action \in {"UPLOADED", "FAILED"}) <=> ~UnchangedOk(asset)
               /\ fetched <=> ~UnchangedOk(asset)
      ]_vars

\* C4 witness: rows that held the current fingerprint with status FAILED and
\* ORPHANED were uploaded again, and in the next run both were skipped.
C4_Witness ==
    /\ Len(runs) = 2
    /\ AuditOf(1) = << LogEntry(1, "UPLOADED", "a", "a.jpg", MediaId(3), NoneStr),
                       LogEntry(1, "UPLOADED", "b", "b.jpg", MediaId(4), NoneStr) >>
    /\ AuditOf(2) = << LogEntry(2, "SKIPPED", "a", "a.jpg", MediaId(3), NoneStr),
                       LogEntry(2, "SKIPPED", "b", "b.jpg", MediaId(4), NoneStr) >>

\* C5: processing an asset whose row is unchanged and OK appends exactly one
\* SKIPPED row for it, adds 1 to skipped and nothing to the other counters,
\* and issues no adapter call.
C5_SkipFrame ==
    [][ \A r \in RunIds :
          (Processed(r) /\ UnchangedOk(CurAsset(r))) =>
            LET asset == CurAsset(r)
            IN /\ audit' = Append(audit,
                     LogEntry(r, "SKIPPED", asset.id, asset.originalFileName,
                              ledger[asset.id].google_media_item_id, NoneStr))
               /\ runs'[r] = [runs[r] EXCEPT !.skipped = @ + 1]
               /\ calls' = calls
               /\ ledger' = ledger
               /\ album' = album
      ]_vars

\* C5 witness: a run skipped an asset.
C5_Witness ==
    \E r \in 1..Len(runs) :
        /\ runs[r].skipped = 1
        /\ \E i \in DOMAIN audit :
             audit[i].sync_run_id = r /\ audit[i].action = "SKIPPED"

\* get_album_assets answered run r.
Fetched(r) == \E c \in calls : c.run = r /\ c.op = "get_album_assets" /\ c.ok

\* Run r has a log row recording the outcome of the asset with this id.
Recorded(r, id) ==
    \E j \in DOMAIN audit :
        /\ audit[j].sync_run_id = r
        /\ audit[j].immich_asset_id = id
        /\ audit[j].action \in {"UPLOADED", "SKIPPED", "FAILED"}

NoCounts(row) ==
    row.uploaded = 0 /\ row.skipped = 0 /\ row.failed = 0 /\ row.deleted = 0

\* C6: when a step of the upload path fails for an asset, the asset's row
\* exists afterwards with status FAILED and the error text, exactly one
\* FAILED log row (carrying that text) is appended for it, failed grows by 1
\* and the other counters stay.
C6_UploadFailureRecorded ==
    [][ \A r \in RunIds :
          (/\ Processed(r)
           /\ \E c \in calls' \ calls :
                 c.run = r /\ ~c.ok /\ c.op \in {"download", "upload", "batch_create"})
          =>
            LET asset == CurAsset(r)
                entry == audit'[Len(audit')]
            IN /\ ledger'[asset.id] # NoItem
               /\ ledger'[asset.id].status = "FAILED"
               /\ ledger'[asset.id].error # NoneStr
               /\ Len(audit') = Len(audit) + 1
               /\ SubSeq(audit', 1, Len(audit)) = audit
               /\ entry.sync_run_id = r
               /\ entry.action = "FAILED"
               /\ entry.immich_asset_id = asset.id
               /\ entry.error_message = ledger'[asset.id].error
               /\ runs'[r] = [runs[r] EXCEPT !.failed = @ + 1]
      ]_vars

\* C6 witness: an upload failed for an asset that had no row before.
C6_Witness ==
    \E i \in DOMAIN audit :
        /\ audit[i].action = "FAILED"
        /\ audit[i].error_message = "upload failed"
        /\ ledger[audit[i].immich_asset_id].status = "FAILED"
        /\ ledger[audit[i].immich_asset_id].google_media_item_id = NoneStr

\* C7: a run with failed assets is never FAILED on their account: a run that
\* fetched its inventory and was not cancelled ends OK with an outcome
\* recorded for every asset of the inventory, failed ones included.
C7_AssetFailuresDoNotAbort ==
    \A r \in 1..Len(runs) :
        /\ runs[r].failed > 0 => runs[r].status # "FAILED"
        /\ (task[r].pc = "done" /\ Fetched(r) /\ runs[r].status # "CANCELLED") =>
              /\ runs[r].status = "OK"
              /\ \A i \in DOMAIN task[r].assets : Recorded(r, task[r].assets[i].id)

\* C7 witness: both assets of a run failed and the run ended OK.
C7_Witness ==
    \E r \in 1..Len(runs) :
        /\ runs[r].status = "OK"
        /\ runs[r].total_assets = 2
        /\ runs[r].failed = 2

\* C8: when the event is set at the top of an iteration, the engine's step
\* makes the run CANCELLED and touches nothing else; the engine takes no
\* further step, so the assets from that position on have no log row and no
\* adapter call of this run, and no listing or delete is issued by it.
C8_CancelPolledBeforeEachAsset ==
    [][ /\ \A r \in RunIds :
             (InLoop(r) /\ cancel_events[r] = "set" /\ task'[r] # task[r]) =>
                /\ runs'[r].status = "CANCELLED"
                /\ task'[r].pc = "done"
                /\ task'[r].idx = task[r].idx
                /\ ledger' = ledger
                /\ audit' = audit
                /\ calls' = calls
                /\ album' = album
        /\ \A r \in RunIds : task[r].pc = "done" => task'[r] = task[r]
        /\ \A r \in 1..Len(runs') :
             runs'[r].status = "CANCELLED" =>
                /\ \A i \in DOMAIN task'[r].assets :
                     i >= task'[r].idx =>
                        /\ ~\E j \in DOMAIN audit' :
                              /\ audit'[j].sync_run_id = r
                              /\ audit'[j].immich_asset_id = task'[r].assets[i].id
                        /\ ~\E c \in calls' :
                              c.run = r /\ c.arg = task'[r].assets[i].id
                /\ ~\E c \in calls' : c.run = r /\ c.op \in {"list", "delete"}
      ]_vars

\* C8 witness: a run was cancelled before its second asset, after the first
\* had been processed.
C8_Witness ==
    \E r \in 1..Len(runs) :
        /\ runs[r].status = "CANCELLED"
        /\ Len(task[r].assets) = 2
        /\ task[r].idx = 2
        /\ Len(AuditOf(r)) = 1

\* C9 (as claimed): a run whose cancel was requested before its engine was
\* constructed ends CANCELLED, with no log row and no adapter call.
C9_PrearmedEndsCancelled ==
    \A r \in 1..Len(runs) :
        (armed[r] = "created" /\ task[r].pc = "done") =>
            /\ runs[r].status = "CANCELLED"
            /\ AuditOf(r) = <<>>
            /\ CallsOf(r) = {}

\* C9 (amended): the event set before construction is still set when the
\* engine holds it; the run never reaches the album or the inventory; it
\* ends CANCELLED when initialisation succeeded and FAILED when it did not,
\* in both cases with no log row, no adapter call and all counters 0.
C9_PrearmTakesEffect ==
    \A r \in 1..Len(runs) :
        armed[r] = "created" =>
            /\ task[r].pc \in {"created", "early", "done"}
            /\ task[r].pc \in {"created", "early"} => cancel_events[r] = "set"
            /\ task[r].pc = "done" =>
                  /\ runs[r].status = IF task[r].initialized THEN "CANCELLED" ELSE "FAILED"
                  /\ AuditOf(r) = <<>>
                  /\ CallsOf(r) = {}
                  /\ NoCounts(runs[r])

\* C9 witness: a run armed before construction ended CANCELLED.
C9_Witness ==
    \E r \in 1..Len(runs) :
        /\ armed[r] = "created"
        /\ task[r].pc = "done"
        /\ task[r].initialized
        /\ runs[r].status = "CANCELLED"

\* Cancel was requested for run r before any of its assets was processed.
ArmedBeforeFirstAsset(r) == armed[r] \in {"created", "setup", "first"}

\* C10 (as claimed): such a run ends CANCELLED with total_assets recorded
\* from the fetched inventory and the four counters 0.
C10_CancelledWithTotalSet ==
    \A r \in 1..Len(runs) :
        (ArmedBeforeFirstAsset(r) /\ task[r].pc = "done") =>
            /\ runs[r].status = "CANCELLED"
            /\ Fetched(r)
            /\ runs[r].total_assets = Len(task[r].assets)
            /\ NoCounts(runs[r])

\* C10 (amended): such a run processes no asset and ends with the four
\* counters 0.  It ends CANCELLED, except FAILED when initialisation, the
\* album or the inventory fetch failed, and OK when the fetched inventory is
\* empty.  total_assets is the size of the inventory when one was fetched
\* (the cancel was seen by the loop) and stays 0 when the early check saw
\* the cancel, which is before the inventory is fetched.
C10_CancelBeforeFirstAsset ==
    \A r \in 1..Len(runs) :
        (ArmedBeforeFirstAsset(r) /\ task[r].pc = "done") =>
            /\ NoCounts(runs[r])
            /\ AuditOf(r) = <<>>
            /\ \A c \in CallsOf(r) : c.op \in {"list_albums", "create_album", "ensure_album",
                                                  "get_album_assets"}
            /\ runs[r].status \in TerminalStatus
            /\ runs[r].status = "FAILED" =>
                  \/ ~task[r].initialized
                  \/ \E c \in CallsOf(r) : ~c.ok
            /\ runs[r].status = "OK" => (Fetched(r) /\ task[r].assets = <<>>)
            /\ runs[r].total_assets = IF Fetched(r) THEN Len(task[r].assets) ELSE 0
            /\ (armed[r] = "created" /\ runs[r].status = "CANCELLED") => ~Fetched(r)

\* C10 witness: cancel arrived after the inventory of two assets was fetched
\* and before the first asset: CANCELLED with total_assets = 2.
C10_Witness ==
    \E r \in 1..Len(runs) :
        /\ armed[r] = "first"
        /\ runs[r].status = "CANCELLED"
        /\ runs[r].total_assets = 2
        /\ NoCounts(runs[r])

\* Run r takes the step that lists the album, the listing being answered.
ListsAlbum(r) ==
    /\ AtOrphanPhase(r)
    /\ [run |-> r, op |-> "list", arg |-> NoneStr, ok |-> TRUE] \in calls' \ calls

\* Rows with a media item id whose asset is not in run r's inventory.
StaleRows(r) ==
    { k \in AssetIds :
        /\ ledger[k] # NoItem
        /\ ledger[k].google_media_item_id # NoneStr
        /\ k \notin CurrentImmichIds(r) }

\* The media item ids run r has asked the album to remove (next state).
DeleteArgs(r) == { c.arg : c \in { d \in calls' : d.run = r /\ d.op = "delete" } }

\* C11 (as claimed): when a run reaches the orphan phase and the album is
\* listed, a delete is attempted for every row that has a media item id and
\* whose asset is not in the inventory, whatever the listing holds.
C11_EveryStaleRowIsCandidate ==
    [][ \A r \in RunIds :
          ListsAlbum(r) =>
             \A k \in StaleRows(r) : ledger[k].google_media_item_id \in DeleteArgs(r)
      ]_vars

\* C11 (amended): the candidates are exactly the rows with a media item id
\* that the listing contains and whose asset is not in the inventory; a
\* delete is attempted for each of them and for nothing else, and a row whose
\* media item is not listed is left as it is.
C11_ListedStaleRowsAreCandidates ==
    [][ \A r \in RunIds :
          ListsAlbum(r) =>
             /\ DeleteArgs(r) =
                   { ledger[k].google_media_item_id :
                        k \in { j \in StaleRows(r) :
                                  ledger[j].google_media_item_id \in album } }
             /\ \A k \in StaleRows(r) :
                   ledger[k].google_media_item_id \notin album => ledger'[k] = ledger[k]
      ]_vars

\* C11 witness: a run handed one asset attempted the delete of the media item
\* of the other asset's row.
C11_Witness ==
    \E c \in calls :
        /\ c.op = "delete"
        /\ task[c.run].pc = "done"
        /\ Len(task[c.run].assets) = 1
        /\ runs[c.run].status = "OK"

\* Run r takes the step in which delete_media_items answers, reporting the
\* ids in failedIds as not removed.
DeleteAnswered(r, failedIds) ==
    \E ord \in Orderings(OrphanedItems(r, album)) : OrphanDelete(r, failedIds, ord)

\* The DELETED log rows for asset k among the rows this step appends.
NewDeletedRows(r, k) ==
    { i \in (Len(audit) + 1)..Len(audit') :
        /\ audit'[i].action = "DELETED"
        /\ audit'[i].sync_run_id = r
        /\ audit'[i].immich_asset_id = k }

\* C12: when the delete call answers, every candidate reported removed loses
\* its row and gets exactly one DELETED log row; every candidate reported
\* failed keeps its row, now ORPHANED with an error text, and gets no log
\* row; deleted grows by the number removed and nothing else is logged.
C12_DeleteOutcomePerItem ==
    [][ \A r \in RunIds : \A f \in SUBSET album :
          DeleteAnswered(r, f) =>
             LET cands == { k \in StaleRows(r) : ledger[k].google_media_item_id \in album }
                 gone == { k \in cands : ledger[k].google_media_item_id \notin f }
             IN /\ \A k \in gone :
                      /\ ledger'[k] = NoItem
                      /\ Cardinality(NewDeletedRows(r, k)) = 1
                      /\ \A i \in NewDeletedRows(r, k) :
                            audit'[i].google_media_item_id = ledger[k].google_media_item_id
                /\ \A k \in cands \ gone :
                      /\ ledger'[k] # NoItem
                      /\ ledger'[k].status = "ORPHANED"
                      /\ ledger'[k].error \notin {NoneStr, ""}
                      /\ ledger'[k].google_media_item_id = ledger[k].google_media_item_id
                      /\ NewDeletedRows(r, k) = {}
                /\ runs'[r].deleted = runs[r].deleted + Cardinality(gone)
                /\ Len(audit') = Len(audit) + Cardinality(gone)
                /\ SubSeq(audit', 1, Len(audit)) = audit
      ]_vars

\* C12 witness: one delete call removed one candidate and failed for another.
C12_Witness ==
    \E i \in DOMAIN audit : \E k \in AssetIds :
        /\ audit[i].action = "DELETED"
        /\ ledger[audit[i].immich_asset_id] = NoItem
        /\ ledger[k].status = "ORPHANED"
        /\ [run |-> audit[i].sync_run_id, op |-> "delete",
            arg |-> ledger[k].google_media_item_id, ok |-> FALSE] \in calls
        /\ runs[audit[i].sync_run_id].deleted = 1

\* C13: the step a run takes once its loop is through (the orphan phase and
\* the finalisation) always ends it OK, whether the listing fails, the
\* delete call raises or items are reported as not removed; so a finished
\* run with a failed listing or delete call is OK.
C13_OrphanFailuresKeepOk ==
    [][ /\ \A r \in RunIds :
             (AtOrphanPhase(r) /\ task'[r] # task[r]) =>
                /\ runs'[r].status = "OK"
                /\ task'[r].pc = "done"
                /\ runs'[r].uploaded = runs[r].uploaded
                /\ runs'[r].skipped = runs[r].skipped
                /\ runs'[r].failed = runs[r].failed
        /\ \A c \in calls' :
             (c.op \in {"list", "delete"} /\ ~c.ok) => runs'[c.run].status = "OK"
      ]_vars

\* C13 witness: the listing failed in one run and the delete was refused in
\* another, and both runs are OK.
C13_Witness ==
    \E c, d \in calls :
        /\ c.op = "list" /\ ~c.ok
        /\ d.op = "delete" /\ ~d.ok
        /\ c.run # d.run
        /\ runs[c.run].status = "OK"
        /\ runs[d.run].status = "OK"

\* C14: a CANCELLED run has issued no listing and no delete call, has
\* logged no DELETED row (it removed no sync_items row) and has deleted = 0.
C14_CancelledRunSkipsOrphanPhase ==
    \A r \in 1..Len(runs) :
        runs[r].status = "CANCELLED" =>
            /\ ~\E c \in calls : c.run = r /\ c.op \in {"list", "delete"}
            /\ ~\E i \in DOMAIN audit :
                  audit[i].sync_run_id = r /\ audit[i].action = "DELETED"
            /\ runs[r].deleted = 0

\* C14 witness: a run was cancelled in its loop while a row whose asset is
\* not in its inventory names a media item of the album.
C14_Witness ==
    \E r \in 1..Len(runs) :
        /\ runs[r].status = "CANCELLED"
        /\ Fetched(r)
        /\ \E k \in AssetIds :
              /\ ledger[k] # NoItem
              /\ ledger[k].google_media_item_id \in album
              /\ k \notin CurrentImmichIds(r)

\* C15: a run's row is RUNNING from its insert (before its engine exists)
\* until run_sync returns; a trigger request that arrives while a row is
\* RUNNING is answered 409 and leaves the rows as they are, and the scheduled
\* job that runs its check while a row is RUNNING returns without inserting.
\* (Requests that ran their check before the row was inserted are the
\* subject of C1.)
C15_TriggerRejectedWhileRunning ==
    [][ /\ \A r \in 1..Len(runs) : task[r].pc # "done" => runs[r].status = "RUNNING"
        /\ RunningRuns # {} =>
              /\ \A h \in Handlers :
                    (Idle(h) /\ hpc'[h] # hpc[h]) =>
                        (hpc'[h] = "conflict" /\ runs' = runs /\ task' = task)
              /\ sched = "idle" => sched' = "idle"
      ]_vars

\* C15 witness: a request was answered 409 while the only run, whose engine
\* has not been constructed yet, is RUNNING.
C15_Witness ==
    \E h \in Handlers :
        /\ hpc[h] = "conflict"
        /\ Len(runs) = 1
        /\ runs[1].status = "RUNNING"
        /\ task[1].pc = "created"

\* C16: every run row that is OK, FAILED or CANCELLED has its finish time
\* set and a stored log excerpt of at most ExcerptLines lines.
C16_TerminalRunIsStamped ==
    \A r \in 1..Len(runs) :
        runs[r].status \in TerminalStatus =>
            /\ runs[r].finished_at
            /\ runs[r].log_excerpt # NoExcerpt
            /\ runs[r].log_excerpt <= ExcerptLines

\* C17: under the event loop's scheduling every run row that exists
\* eventually is OK, FAILED or CANCELLED.
C17_EveryRunTerminates ==
    \A r \in RunIds :
        Exists(r) ~> (Exists(r) /\ runs[r].status \in TerminalStatus)

\* C17 witness: all the runs the bound allows were created and each of them
\* has ended, one of them after working through a two-asset inventory.
C17_Witness ==
    /\ Len(runs) = MaxRuns
    /\ \A r \in RunIds : task[r].pc = "done" /\ runs[r].status \in TerminalStatus
    /\ \E r \in RunIds : runs[r].status = "OK" /\ runs[r].total_assets = 2

\* C18: once run_sync has returned, the registry holds no event for the
\* run, whatever happens afterwards.
C18_NoFlagForFinishedRun ==
    \A r \in RunIds : task[r].pc = "done" => cancel_events[r] = "absent"

\* C19: an event is only ever set for a run id that has a row, so the
\* registry holds nothing for unknown ids; a cancel request is accepted for
\* every id that has a row, finished or not; and when it names a finished
\* run, the rows of all runs, the log and the ledger stay as they are.
C19_CancelKnownRunsOnly ==
    [][ \A r \in RunIds :
          /\ r \notin DOMAIN runs => cancel_events[r] = "absent"
          /\ r \in DOMAIN runs => ENABLED CancelRequest(r)
          /\ (cancel_events'[r] = "set" /\ cancel_events[r] # "set") =>
                /\ r \in DOMAIN runs
                /\ task[r].pc = "done" =>
                      (runs' = runs /\ audit' = audit /\ ledger' = ledger /\ task' = task)
      ]_vars

\* C19 witness: a cancel request naming a finished run was acknowledged.
C19_Witness ==
    \E r \in 1..Len(runs) :
        /\ armed[r] = "done"
        /\ task[r].pc = "done"
        /\ runs[r].status \in TerminalStatus
        /\ cancel_events[r] = "set"

\* The call by which run r failed to resolve its album.
AlbumCallFailed(r) == [run |-> r, op |-> "ensure_album", arg |-> NoneStr, ok |-> FALSE]

\* C20: the step in which the album cannot be resolved makes the run FAILED
\* and ends it, leaving ledger, log and album alone; such a run has issued
\* no other adapter call, has no log row and all its counters are 0.
C20_AlbumFailureIsFatal ==
    [][ \A r \in RunIds :
          /\ (AlbumCallFailed(r) \in calls' \ calls) =>
                /\ runs'[r].status = "FAILED"
                /\ task'[r].pc = "done"
                /\ ledger' = ledger
                /\ audit' = audit
                /\ album' = album
          /\ (AlbumCallFailed(r) \in calls') =>
                /\ runs'[r].status = "FAILED"
                /\ \A c \in calls' : c.run = r => c.op \in {"ensure_album", "list_albums"}
                /\ ~\E i \in DOMAIN audit' : audit'[i].sync_run_id = r
                /\ NoCounts(runs'[r])
                /\ runs'[r].total_assets = 0
      ]_vars

\* C20 witness: a run failed on the album while the ledger holds nothing.
C20_Witness ==
    \E r \in 1..Len(runs) :
        /\ AlbumCallFailed(r) \in calls
        /\ runs[r].status = "FAILED"
        /\ task[r].pc = "done"
        /\ \A k \in AssetIds : ledger[k] = NoItem

\* Run r went through without any failure: it ended OK, no asset failed,
\* the album was listed and every adapter call it made was answered.
CleanRun(r) ==
    /\ task[r].pc = "done"
    /\ runs[r].status = "OK"
    /\ runs[r].failed = 0
    /\ [run |-> r, op |-> "list", arg |-> NoneStr, ok |-> TRUE] \in calls
    /\ \A c \in CallsOf(r) : c.ok

\* Run r + 1 was handed the inventory run r was handed.
SameInventoryNext(r) ==
    /\ r + 1 \in 1..Len(runs)
    /\ Fetched(r + 1)
    /\ task[r + 1].assets = task[r].assets

\* The runs are executed one after the other: never are two sync_runs rows
\* RUNNING at the same time.
OneAfterTheOther == Cardinality(RunningRuns) <= 1

\* C21 (as claimed): when two runs are executed to the end one after the
\* other on the same inventory, the second has uploaded = 0 and deleted = 0,
\* whatever the starting ledger and whatever happened in the first.  With
\* MaxHandlers = 1 and no scheduled job the runs of Spec never overlap.
C21_SecondRunDoesNothing ==
    \A r \in 1..Len(runs) :
        (/\ task[r].pc = "done" /\ runs[r].status = "OK"
         /\ SameInventoryNext(r)
         /\ task[r + 1].pc = "done" /\ runs[r + 1].status = "OK")
        => (runs[r + 1].uploaded = 0 /\ runs[r + 1].deleted = 0)

\* After a first run without any failure, the second run on the same
\* inventory has counted no upload, failure or deletion and has called
\* nothing but the inventory and the album listing.
SecondRunAfterCleanRunDoesNothing ==
    \A r \in 1..Len(runs) :
        (CleanRun(r) /\ SameInventoryNext(r)) =>
            /\ runs[r + 1].uploaded = 0
            /\ runs[r + 1].failed = 0
            /\ runs[r + 1].deleted = 0
            /\ \A c \in CallsOf(r + 1) : c.op \in {"get_album_assets", "list"}

\* C21 (amended): when runs are executed one after the other and the first
\* of two went through without any failure (no failed asset, listing
\* answered, every delete carried out), the second run on the same
\* inventory has uploaded = 0, failed = 0 and deleted = 0, and issues no
\* download, upload, create or delete call.
C21_SecondRunAfterCleanRunDoesNothing ==
    []OneAfterTheOther => []SecondRunAfterCleanRunDoesNothing

\* C21 witness: a first run uploaded both assets, a second run on the same
\* inventory ended OK having skipped both.
C21_Witness ==
    /\ Len(runs) = 2
    /\ CleanRun(1) /\ runs[1].uploaded = 2
    /\ SameInventoryNext(1)
    /\ task[2].pc = "done" /\ runs[2].status = "OK"
    /\ runs[2].skipped = 2

\* The first run on the mirrored ledger was handed the changed album, no
\* cancel was requested while it ran, it has returned and no later run has
\* started its engine.
RoundTripDone ==
    /\ Len(runs) >= 1
    /\ task[1].pc = "done"
    /\ Fetched(1)
    /\ armed[1] \in {"no", "done"}
    /\ \A r \in 2..Len(runs) : task[r].pc = "created"

\* The call of run 1 asking for the removal of media item g, answered ok.
DeleteCall(g, ok) == [run |-> 1, op |-> "delete", arg |-> g, ok |-> ok]

\* Every call run 1 issued on behalf of asset id was answered.
UploadWentThrough(id) == \A c \in CallsOf(1) : c.arg = id => c.ok

\* The row of "b" reads ORPHANED with the error text, all else as it was.
OrphanedB ==
    [MirroredLedger["b"] EXCEPT !.status = "ORPHANED",
                                !.error = "Failed to remove from Google Photos album"]

Unfinished(r) == task[r].pc \in Active \cup {"stopped"}

\* The sync_items row of asset records an outcome of processing it: OK with
\* the asset's fingerprint and a media item, or FAILED with an error text.
RowRecordsOutcome(row, asset) ==
    /\ row # NoItem
    /\ row.immich_filename = asset.originalFileName
    /\ \/ /\ row.status = "OK"
          /\ row.immich_checksum = Fingerprint(asset)
          /\ row.google_media_item_id # NoneStr
          /\ row.error = NoneStr
       \/ /\ row.status = "FAILED"
          /\ row.error \notin {NoneStr, ""}

\* The assets of run r's inventory that its loop has not yet processed.
NotYetProcessed(r) ==
    { task[r].assets[i].id : i \in task[r].idx..Len(task[r].assets) }

\* C23: at whatever point of a run the process stops, the stored state is
\* this: the run's row is RUNNING without finish time; every asset the run
\* has processed has a row recording OK (with its fingerprint and a media
\* item) or FAILED (with an error text); and the row of every asset of the
\* inventory the run has not yet processed is what it was, i.e. while the
\* run is in its loop such a row changes only in a step of the run itself
\* on the asset it is processing.
C23_StoppedRunIsConsistent ==
    [][ \A r \in RunIds :
          /\ Unfinished(r)' =>
                /\ runs'[r].status = "RUNNING"
                /\ ~runs'[r].finished_at
                /\ \A i \in 1..(task'[r].idx - 1) :
                      RowRecordsOutcome(ledger'[task'[r].assets[i].id], task'[r].assets[i])
          /\ task[r].pc = "loop" =>
                \A k \in NotYetProcessed(r) :
                   ledger'[k] # ledger[k] =>
                      (InLoop(r) /\ k = CurAsset(r).id /\ task'[r] # task[r])
      ]_vars

\* In this step run r created a media item for its current asset.
CreatedItem(r) ==
    /\ Processed(r)
    /\ [run |-> r, op |-> "batch_create", arg |-> CurAsset(r).id, ok |-> TRUE]
           \in calls' \ calls

\* The UPLOADED log rows run r has for the asset with this id (next state).
UploadedRows(r, id) ==
    { i \in DOMAIN audit' :
        /\ audit'[i].sync_run_id = r
        /\ audit'[i].action = "UPLOADED"
        /\ audit'[i].immich_asset_id = id }

\* C24: when download, upload and creation succeed for an asset that has no
\* row, the asset has a row afterwards: OK, no error, the asset's
\* fingerprint and the id of the media item just created (which is new to
\* the album); the run has exactly one UPLOADED log row for it, carrying
\* that id; uploaded grows by 1 and the other counters stay.
C24_FirstUploadRecorded ==
    [][ \A r \in RunIds :
          (CreatedItem(r) /\ ledger[CurAsset(r).id] = NoItem) =>
            LET asset == CurAsset(r)
                row == ledger'[asset.id]
            IN /\ row # NoItem
               /\ row.status = "OK"
               /\ row.error = NoneStr
               /\ row.immich_checksum = Fingerprint(asset)
               /\ row.immich_filename = asset.originalFileName
               /\ row.google_media_item_id \in album' \ album
               /\ \A k \in AssetIds \ {asset.id} : ledger'[k] = ledger[k]
               /\ Cardinality(UploadedRows(r, asset.id)) = 1
               /\ audit' = Append(audit,
                     LogEntry(r, "UPLOADED", asset.id, asset.originalFileName,
                              row.google_media_item_id, NoneStr))
               /\ runs'[r] = [runs[r] EXCEPT !.uploaded = @ + 1]
      ]_vars

\* C24 witness: on the fresh database asset "b", which has no checksum, was
\* uploaded as the second media item and its row holds the composite
\* fingerprint.
C24_Witness ==
    /\ Len(runs) = 1
    /\ runs[1].uploaded = 2
    /\ ledger["b"] = [immich_checksum |-> "t1_b.jpg", immich_filename |-> "b.jpg",
                      google_media_item_id |-> MediaId(2),
                      google_product_url |-> ProductUrl(MediaId(2)),
                      status |-> "OK",
                      error |-> NoneStr]
    /\ AuditOf(1)[2] = LogEntry(1, "UPLOADED", "b", "b.jpg", MediaId(2), NoneStr)
    /\ album = {ForeignItem, MediaId(1), MediaId(2)}

\* The text ends in "/".
EndsInSlash(text) == text # <<>> /\ text[Len(text)] = Slash

\* C25: the call update_immich_config(db, url, key) leaves exactly one row
\* in app_config, with id 1, whose immich_url is url without its trailing
\* "/" characters and from which get_immich_api_key gives back key; a
\* get_config call returns that row as it is, adds a row only when the
\* table held none, and the table never holds a second row.
C25_ConfigRoundTrip ==
    [][ /\ Len(config') <= 1
        /\ \A c \in calls' :
             (c.op = "update_immich_config" /\ (calls' # calls \/ config' # config)) =>
                /\ config' = <<c.result>>
                /\ c.result.id = 1
                /\ ~EndsInSlash(c.result.immich_url)
                /\ \E n \in 0..Len(c.arg[1]) :
                      /\ c.result.immich_url = SubSeq(c.arg[1], 1, Len(c.arg[1]) - n)
                      /\ \A i \in (Len(c.arg[1]) - n + 1)..Len(c.arg[1]) :
                            c.arg[1][i] = Slash
                /\ GetImmichApiKey(c.result) = c.arg[2]
                /\ GetConfig(config') = config'
                /\ ConfigRow(GetConfig(config')) = c.result
        /\ \A c \in calls' :
             (c.op = "get_config" /\ (calls' # calls \/ config' # config)) =>
                /\ config' = <<c.result>>
                /\ c.result.id = 1
                /\ config # <<>> => config' = config
                /\ config = <<>> => c.result = DefaultConfigRow
      ]_vars

\* C25 witness: a URL ending in two "/" and a key with a non-ASCII letter
\* were stored, and get_config was called afterwards.
C25_Witness ==
    /\ \E c \in calls : c.op = "get_config"
    /\ Len(config) = 1
    /\ config[1].immich_url = <<LetterH>>
    /\ config[1].immich_api_key_enc \notin {<<>>, NoneText}
    /\ GetImmichApiKey(config[1]) = <<LetterK, EAcute>>

C27_OkRunDidOrphanPhase ==
    \A r \in 1..Len(runs) :
        runs[r].status = "OK" => \E c \in CallsOf(r) : c.op = "list"

\* Media item g is in the album and no sync_items row names it.
UnlinkedItem(g) ==
    /\ g \in album
    /\ \A k \in AssetIds : ledger[k].google_media_item_id # g

\* The same of the next state.
UnlinkedItemNext(g) ==
    /\ g \in album'
    /\ \A k \in AssetIds : ledger'[k].google_media_item_id # g

\* C28: when an asset whose row names a media item is uploaded again, the
\* row is overwritten (new media item, the asset's fingerprint, OK, no
\* error), no delete call is issued in that step and the old media item
\* stays in the album, named by no row; and a media item of the album that
\* no row names is never named again and never leaves the album, so no
\* later step of this or any other run deletes it.
C28_SupersededItemIsKept ==
    [][ /\ \A r \in RunIds :
             (CreatedItem(r) /\ ledger[CurAsset(r).id].google_media_item_id # NoneStr) =>
                LET asset == CurAsset(r)
                    old == ledger[asset.id].google_media_item_id
                    row == ledger'[asset.id]
                IN /\ row.status = "OK"
                   /\ row.error = NoneStr
                   /\ row.immich_checksum = Fingerprint(asset)
                   /\ row.google_media_item_id # old
                   /\ row.google_media_item_id \in album' \ album
                   /\ ~\E c \in calls' \ calls : c.op = "delete"
                   /\ old \in album => UnlinkedItemNext(old)
        /\ \A g \in album : UnlinkedItem(g) => UnlinkedItemNext(g)
        /\ \A c \in calls' \ calls : c.op = "delete" => ~UnlinkedItem(c.arg)
      ]_vars

\* C28 witness: the edited asset "a" was uploaded again as g3; g1, which its
\* row named before, is still in the album after a later run has completed
\* its orphan phase.
C28_Witness ==
    /\ Len(runs) = 2
    /\ ledger["a"].google_media_item_id = MediaId(3)
    /\ ledger["a"].status = "OK"
    /\ UnlinkedItem(MediaId(1))
    /\ task[2].pc = "done"
    /\ [run |-> 2, op |-> "list", arg |-> NoneStr, ok |-> TRUE] \in calls

\* C29: an asset that goes down the upload path has a row afterwards,
\* whether the upload succeeded or failed; and a row disappears only in a
\* step in which the delete of its media item was carried out and a DELETED
\* log row was written for it: no other step of the engine, no trigger and
\* no cancel request removes a row.
C29_LedgerRowLifecycle ==
    [][ /\ \A r \in RunIds :
             (Processed(r) /\ \E c \in calls' \ calls : c.run = r /\ c.op = "download")
                => ledger'[CurAsset(r).id] # NoItem
        /\ \A k \in AssetIds :
             (ledger[k] # NoItem /\ ledger'[k] = NoItem) =>
                \E r \in RunIds :
                   /\ AtOrphanPhase(r)
                   /\ [run |-> r, op |-> "delete",
                       arg |-> ledger[k].google_media_item_id, ok |-> TRUE]
                          \in calls' \ calls
                   /\ \E i \in (Len(audit) + 1)..Len(audit') :
                         /\ audit'[i].action = "DELETED"
                         /\ audit'[i].immich_asset_id = k
                         /\ audit'[i].sync_run_id = r
      ]_vars

\* C29 witness: a row was created by a failed first upload (it names no
\* media item), and another row was removed by a successful delete.
C29_Witness ==
    \E k, j \in AssetIds :
        /\ ledger[k].status = "FAILED"
        /\ ledger[k].google_media_item_id = NoneStr
        /\ ledger[j] = NoItem
        /\ \E i \in DOMAIN audit :
              audit[i].action = "DELETED" /\ audit[i].immich_asset_id = j

\* C30: the run log only grows at its end: the rows already there stay as
\* they are and in place, and every row added carries the id of a run that
\* is RUNNING and whose engine takes the step.
C30_AuditAppendOnly ==
    [][ /\ Len(audit') >= Len(audit)
        /\ SubSeq(audit', 1, Len(audit)) = audit
        /\ \A i \in (Len(audit) + 1)..Len(audit') :
             LET r == audit'[i].sync_run_id
             IN /\ r \in 1..Len(runs)
                /\ runs[r].status = "RUNNING"
                /\ task[r].pc = "loop"
                /\ task'[r] # task[r]
                /\ \A x \in RunIds \ {r} : task'[x] = task[x]
                /\ audit'[i].action \in SyncRunAction
      ]_vars

\* C30 witness: two runs were in progress at the same time and each has
\* written rows of its own to the log.
C30_Witness ==
    /\ Len(runs) = 2
    /\ Len(AuditOf(1)) >= 1
    /\ Len(AuditOf(2)) >= 1
    /\ \E i, j \in DOMAIN audit : i < j /\ audit[i].sync_run_id = 2 /\ audit[j].sync_run_id = 1

\* The log rows run r wrote in its loop (one per asset processed), in order.
ProcessedLog(r) == SelectSeq(AuditOf(r), LAMBDA e : e.action # "DELETED")

\* The number of assets the loop of run r has gone through.
ProcessedCount(r) == IF task[r].idx = 0 THEN 0 ELSE task[r].idx - 1

\* C31: in every state the UPLOADED, SKIPPED and FAILED log rows of a run
\* are one per asset processed so far, in the order of the inventory the
\* run was handed; download, upload and create calls were issued only for
\* assets whose outcome is recorded; and the DELETED rows of the run come
\* after all those rows, once the whole inventory has been gone through.
C31_ProcessedInInventoryOrder ==
    \A r \in 1..Len(runs) :
        LET A == AuditOf(r)
            P == ProcessedLog(r)
            n == ProcessedCount(r)
        IN /\ Len(P) = n
           /\ \A i \in 1..n : P[i].immich_asset_id = task[r].assets[i].id
           /\ \A c \in CallsOf(r) :
                 c.op \in {"download", "upload", "batch_create"} =>
                    \E i \in 1..n : task[r].assets[i].id = c.arg
           /\ \A i, j \in DOMAIN A :
                 (i < j /\ A[i].action = "DELETED") => A[j].action = "DELETED"
           /\ (\E i \in DOMAIN A : A[i].action = "DELETED") =>
                 n = Len(task[r].assets)

\* C31 witness: the first run uploaded "a" then "b" as the inventory listed
\* them; the second run, handed the edited "a" alone, uploaded it and then
\* deleted the media item of "b".
C31_Witness ==
    /\ Len(runs) = 2
    /\ Len(AuditOf(1)) = 2
    /\ AuditOf(1)[1].immich_asset_id = "a" /\ AuditOf(1)[2].immich_asset_id = "b"
    /\ Len(AuditOf(2)) = 2
    /\ AuditOf(2)[1].action = "UPLOADED" /\ AuditOf(2)[1].immich_asset_id = "a"
    /\ AuditOf(2)[2].action = "DELETED" /\ AuditOf(2)[2].immich_asset_id = "b"

\* C32: once the album id is stored in the configuration no run issues a
\* list_albums or create_album call, the stored id stays as it is, and at
\* most one album is ever created.
C32_ContainerResolvedOnce ==
    [][ /\ config.google_album_id # NoneStr =>
              /\ ~\E c \in calls' \ calls : c.op \in {"list_albums", "create_album"}
              /\ config'.google_album_id = config.google_album_id
        /\ Cardinality({ c \in calls' : c.op = "create_album" /\ c.ok }) <= 1
      ]_vars

\* The call by which run r failed to fetch the Immich album.
FetchCallFailed(r) == [run |-> r, op |-> "get_album_assets", arg |-> NoneStr, ok |-> FALSE]

\* C33: the step in which get_album_assets fails ends the run FAILED with
\* its finish time, leaving ledger, log and Google album alone; a run whose
\* fetch failed never lists the Google album nor deletes from it, has no
\* log row and total_assets 0.
C33_FetchFailureIsFatal ==
    [][ \A r \in RunIds :
          /\ (FetchCallFailed(r) \in calls' \ calls) =>
                /\ runs'[r].status = "FAILED"
                /\ runs'[r].finished_at
                /\ task'[r].pc = "done"
                /\ ledger' = ledger
                /\ audit' = audit
                /\ album' = album
          /\ (FetchCallFailed(r) \in calls') =>
                /\ runs'[r].status = "FAILED"
                /\ ~\E c \in calls' : c.run = r /\ c.op \in {"list", "delete", "download",
                                                              "upload", "batch_create"}
                /\ ~\E i \in DOMAIN audit' : audit'[i].sync_run_id = r
                /\ NoCounts(runs'[r])
                /\ runs'[r].total_assets = 0
      ]_vars

\* C33 witness: a run failed on the fetch while the ledger holds an ORPHANED
\* row whose media item is in the album: an empty inventory would have had
\* it deleted.
C33_Witness ==
    \E r \in 1..Len(runs) :
        /\ FetchCallFailed(r) \in calls
        /\ runs[r].status = "FAILED"
        /\ task[r].pc = "done"
        /\ \E k \in AssetIds :
              /\ ledger[k].status = "ORPHANED"
              /\ ledger[k].google_media_item_id \in album

\* uploaded + skipped + failed of a sync_runs row.
Handled(row) == row.uploaded + row.skipped + row.failed

\* C34: no step lowers a counter of a run; the assets a run has counted
\* never exceed its total_assets; a run that is OK has counted every asset,
\* and its total_assets is the length of the inventory it fetched.
C34_CounterConservation ==
    [][ /\ \A r \in 1..Len(runs) :
              /\ runs'[r].uploaded >= runs[r].uploaded
              /\ runs'[r].skipped >= runs[r].skipped
              /\ runs'[r].failed >= runs[r].failed
              /\ runs'[r].deleted >= runs[r].deleted
        /\ \A r \in 1..Len(runs') :
              /\ Handled(runs'[r]) <= runs'[r].total_assets
              /\ runs'[r].status = "OK" =>
                    /\ Handled(runs'[r]) = runs'[r].total_assets
                    /\ runs'[r].total_assets = Len(task'[r].assets)
                    /\ \E c \in calls' : c.run = r /\ c.op = "get_album_assets" /\ c.ok
      ]_vars

\* C34 witness: an OK run of two assets, one uploaded and one failed.
C34_Witness ==
    \E r \in 1..Len(runs) :
        /\ runs[r].status = "OK"
        /\ runs[r].total_assets = 2
        /\ runs[r].uploaded = 1
        /\ runs[r].failed = 1

\* The number of sync_run_logs rows of run r with the action given.
LogCount(r, action) == Len(SelectSeq(AuditOf(r), LAMBDA e : e.action = action))

\* C35: the counters of a run that has ended are the numbers of its log
\* rows, action by action.
C35_CountersMatchLog ==
    \A r \in 1..Len(runs) :
        runs[r].status \in TerminalStatus =>
            /\ runs[r].uploaded = LogCount(r, "UPLOADED")
            /\ runs[r].skipped = LogCount(r, "SKIPPED")
            /\ runs[r].failed = LogCount(r, "FAILED")
            /\ runs[r].deleted = LogCount(r, "DELETED")

\* C35 witness: an ended run that uploaded one asset and deleted one orphan,
\* after a run that ended with one upload and one failure.
C35_Witness ==
    /\ Len(runs) = 2
    /\ runs[1].status = "OK" /\ runs[1].uploaded = 1 /\ runs[1].failed = 1
    /\ runs[2].status = "OK" /\ runs[2].uploaded = 1 /\ runs[2].deleted = 1
    /\ Len(AuditOf(1)) = 2
    /\ Len(AuditOf(2)) = 2

\* C36: a failed upload path for an asset that has a row writes the row's
\* filename, status FAILED and error text and nothing else: fingerprint,
\* media item id and product url stay, and the media item stays in the album.
C36_FailureKeepsLink ==
    [][ \A r \in RunIds :
          (/\ Processed(r)
           /\ ledger[CurAsset(r).id] # NoItem
           /\ \E c \in calls' \ calls :
                 c.run = r /\ ~c.ok /\ c.op \in {"download", "upload", "batch_create"})
          =>
            LET asset == CurAsset(r)
                old == ledger[asset.id]
                new == ledger'[asset.id]
            IN /\ new.status = "FAILED"
               /\ new.error # NoneStr
               /\ new.immich_filename = asset.originalFileName
               /\ new.immich_checksum = old.immich_checksum
               /\ new.google_media_item_id = old.google_media_item_id
               /\ new.google_product_url = old.google_product_url
               /\ \A k \in AssetIds \ {asset.id} : ledger'[k] = ledger[k]
               /\ album' = album
      ]_vars

\* C36 witness: the edited "a" failed to upload in a run of this service
\* while its row named media item g1 with the old fingerprint; the row
\* still names g1, and g1 is still in the album.
C36_Witness ==
    /\ \E i \in DOMAIN audit :
          /\ audit[i].action = "FAILED"
          /\ audit[i].immich_asset_id = "a"
          /\ audit[i].immich_filename = A2.originalFileName
    /\ ledger["a"].status = "FAILED"
    /\ ledger["a"].immich_checksum = Fingerprint(A1)
    /\ ledger["a"].immich_checksum # Fingerprint(A2)
    /\ ledger["a"].google_media_item_id = MediaId(1)
    /\ ledger["a"].google_product_url = ProductUrl(MediaId(1))
    /\ MediaId(1) \in album

\* Row k is ORPHANED, its asset is not in the inventory run r fetched and
\* its media item is in the Google album.
StillOrphaned(r, k) ==
    /\ ledger[k] # NoItem
    /\ ledger[k].status = "ORPHANED"
    /\ k \notin CurrentImmichIds(r)
    /\ ledger[k].google_media_item_id \in album

\* C37: when a run whose loop went through the whole inventory without
\* seeing a cancel request ends, and Google answered its listing of the
\* album, it has issued a delete call for the media item of every row that
\* was still orphaned; the row is gone when that call succeeded and is kept
\* ORPHANED when it did not.
C37_OrphanedRowIsRetried ==
    [][ \A r \in RunIds : \A k \in AssetIds :
          (/\ AtOrphanPhase(r)
           /\ StillOrphaned(r, k)
           /\ task'[r].pc = "done"
           /\ ~\E c \in calls' \ calls : c.run = r /\ c.op = "list" /\ ~c.ok)
          =>
            LET g == ledger[k].google_media_item_id
            IN /\ \E c \in calls' \ calls : c.run = r /\ c.op = "delete" /\ c.arg = g
               /\ \A c \in calls' \ calls :
                     (c.run = r /\ c.op = "delete" /\ c.arg = g) =>
                        IF c.ok THEN ledger'[k] = NoItem /\ g \notin album'
                        ELSE ledger'[k].status = "ORPHANED" /\ g \in album'
      ]_vars

\* Row k exists and names no media item.
NeverUploaded(k) == ledger[k] # NoItem /\ ledger[k].google_media_item_id = NoneStr

\* C38: a row that names no media item is FAILED; no step removes it or
\* issues a delete call or writes a DELETED log row for it, and only the
\* processing of its own asset in a loop changes it.
C38_NeverUploadedRowStays ==
    [][ \A k \in AssetIds :
          NeverUploaded(k) =>
            /\ ledger[k].status = "FAILED"
            /\ ledger'[k] # NoItem
            /\ ~\E c \in calls' : c.op = "delete" /\ c.arg = NoneStr
            /\ \A i \in DOMAIN audit' :
                  (i > Len(audit) /\ audit'[i].immich_asset_id = k) =>
                      audit'[i].action # "DELETED"
            /\ (~\E r \in RunIds : Processed(r) /\ CurAsset(r).id = k) =>
                  ledger'[k] = ledger[k]
      ]_vars

\* C38 witness: "b" never got a media item in the first run; the second
\* run was handed an album without "b", deleted the orphan "a" and ended
\* OK; the row of "b" is still there, FAILED.
C38_Witness ==
    /\ Len(runs) = 2
    /\ runs[2].status = "OK"
    /\ runs[2].deleted = 1
    /\ task[2].assets = <<>>
    /\ ledger["a"] = NoItem
    /\ NeverUploaded("b")
    /\ ledger["b"].status = "FAILED"
    /\ \E i \in DOMAIN audit :
          audit[i].sync_run_id = 1 /\ audit[i].action = "FAILED"
            /\ audit[i].immich_asset_id = "b"

\* C39: a run ends CANCELLED only if a cancel request named that run, and
\* the step that sets the event of a run is a cancel request naming it,
\* which leaves the events of all other runs as they are.
C39_CancelIsPerRun ==
    [][ \A r \in RunIds :
          /\ (r <= Len(runs') /\ runs'[r].status = "CANCELLED") => armed'[r] # "no"
          /\ (cancel_events'[r] = "set" /\ cancel_events[r] # "set") =>
                /\ armed'[r] # "no"
                /\ \A q \in RunIds \ {r} : cancel_events'[q] = cancel_events[q]
                /\ runs' = runs
      ]_vars

\* C39 witness: the first run had ended when a cancel request named it, so
\* its event was left set; the second run, triggered afterwards and named by
\* no request, went through two assets and ended OK.
C39_Witness ==
    /\ Len(runs) = 2
    /\ armed[1] = "done"
    /\ cancel_events[1] = "set"
    /\ armed[2] = "no"
    /\ runs[2].status = "OK"
    /\ runs[2].total_assets = 2
    /\ \E i \in DOMAIN audit : audit[i].sync_run_id = 2

\* C40: once the process has stopped under a run, the row of that run stays
\* RUNNING whatever happens next; no row is added to sync_runs, every
\* trigger_sync request that is answered is answered 409, and the scheduled
\* job never gets past its RUNNING check.
C40_StoppedRunBlocksForever ==
    [][ (\E r \in RunIds : Stopped(r)) =>
          /\ \A r \in RunIds :
                Stopped(r) =>
                   /\ runs[r].status = "RUNNING"
                   /\ runs'[r] = runs[r]
                   /\ task'[r].pc = "stopped"
          /\ Len(runs') = Len(runs)
          /\ \A h \in Handlers :
                /\ hpc[h] # "checked"
                /\ hpc'[h] # hpc[h] => hpc'[h] = "conflict"
          /\ sched = "idle"
          /\ sched' = "idle"
      ]_vars

\* C40 witness: the only run so far was stopped with the process; since the
\* start a cancel request has named it and a trigger was answered 409; the
\* row is RUNNING and the table has room for another run.
C40_Witness ==
    /\ Len(runs) = 1
    /\ Len(runs) < MaxRuns
    /\ Stopped(1)
    /\ runs[1].status = "RUNNING"
    /\ ~runs[1].finished_at
    /\ cancel_events[1] = "set"
    /\ \E h \in Handlers : hpc[h] = "conflict"

\* Reachability of the used store: TLC finds this violated when Init is
\* restricted to FreshStore, i.e. two runs starting from the fresh store
\* leave exactly the ledger, album and configuration of UsedStore behind.
UsedStoreNotReached ==
    ~(/\ ledger = UsedStore.ledger
      /\ album = UsedStore.album
      /\ nextMedia = UsedStore.nextMedia
      /\ config.google_album_id = UsedStore.google_album_id
      /\ Len(audit) = 3)

====
